---------------------------- MODULE Spec2Model ----------------------------
(***************************************************************************)
(* A model of the /chat pipeline of raycast-ai-openrouter-proxy:           *)
(* chatCompletion (controllers/api.ts, the version with the reasoning      *)
(* sequencer) and the helpers it calls (makeOllamaChunk in the util        *)
(* module, findModelConfig in data/models.ts).                             *)
(*                                                                         *)
(* Every variable is a function of the request, since every piece of      *)
(* mutable state of chatCompletion is a local of one invocation.           *)
(*                                                                         *)
(* Optional values (undefined / null in the source) are modelled as        *)
(* sequences of length at most one: None is <<>>, Some(v) is <<v>>.        *)
(* Content texts are strings; tool-call argument texts are sequences of    *)
(* one-character strings, because JSON.parse reads them character by       *)
(* character.                                                              *)
(***************************************************************************)
EXTENDS Integers, Sequences, FiniteSets, TLC

\* ------------------------------------------------------------------ bounds

\* Upstream chunks one request may receive.
MaxDeltas == 3
\* Keep-alive ticks one request may see.
MaxPings == 1

\* ------------------------------------------------------------ basic values

Reqs == {1, 2}

None == <<>>
Some(v) == <<v>>

\* x || '' of the source for an optional string: undefined, null and '' give ''.
OrEmptyString(x) == IF x = None THEN "" ELSE x[1]

\* x || '' of the source for an optional argument text.
OrEmptyText(x) == IF x = None THEN <<>> ELSE x[1]

\* P.string.minLength(1) of ts-pattern: a string of at least one character.
MinLength1(x) == x # None /\ x[1] # ""

\* ------------------------------------------------------------ model lookup

\* The models loaded from models.json at startup (their display names).
ConfiguredModels == <<"gpt">>

\* What fetchLocalOllamaModels may return: [] on any failure, or the local list.
LocalModelLists == {<<>>, <<"llama [Local]">>}

\* The model names a request may ask for.
RequestedNames == {"gpt", "llama [Local]", "ghost-model"}

\* A lookup that falls back to the first model when no name matches.
FindModelConfigOrFirst(models, modelName) ==
  LET hits == {i \in 1..Len(models) : models[i] = modelName}
  IN IF hits = {} THEN Some(models[1])
     ELSE Some(models[CHOOSE i \in hits : \A j \in hits : i <= j])

\* models.find((config) => config.name === modelName): the first match, or undefined.
FindModelConfig(models, modelName) ==
  LET hits == {i \in 1..Len(models) : models[i] = modelName}
  IN IF hits = {} THEN None
     ELSE Some(models[CHOOSE i \in hits : \A j \in hits : i <= j])

\* ---------------------------------------------------------------- state

VARIABLES
  pc,             \* where the handler of the request is suspended
  outcome,        \* how the handler ended
  requestedModel, \* the model name of the request body
  conn,           \* the client connection: "open" or "closed"
  headersSent,    \* res.writeHead(200, ...) has been called
  closeHandler,   \* res.on('close', ...) has been registered
  resEnded,       \* res.end() has been called
  pingInterval,   \* the keep-alive timer: "unset", "running", "cleared"
  aborted,        \* abortController.signal.aborted
  abortCalls,     \* calls of abortController.abort()
  cleanupCalls,   \* invocations of cleanup()
  timerStops,     \* clearInterval calls that stopped a running timer
  writes,         \* every res.write, in order
  reasoning,      \* the sequencer mode (let reasoning)
  finalToolCalls, \* the tool-call accumulator
  finish_reason,  \* the last mapped terminal reason
  nDeltas,        \* chunks taken from the upstream stream so far
  nPings,         \* timer ticks so far
  lastChunk,      \* the chunk the last loop iteration handled
  nOpened,        \* Idle -> Reasoning transitions of the sequencer so far
  fragLog,        \* every tool-call fragment received, in arrival order
  closedAt,       \* where the handler was when the connection closed
  writesAtClose,  \* how many writes had been made when the connection closed
  suppliedReason, \* the last terminal reason a chunk carried, if any
  allModels,      \* the configured models followed by the discovered ones
  abortController,\* the cancellation token: "none" or "created"
  upstreamCalls,  \* calls of chat.completions.create
  httpError,      \* the HttpError the handler threw, if any
  messages,       \* the messages of the request body the translation has visited
  openaiMessages, \* what the translation returned for them, in order
  toolCallIds,    \* the queue of correlation ids of the translation call
  minted,         \* how many correlation ids the translation call has minted
  bodyPc,         \* how far the tool declarations of the body have come
  rawTools,       \* the tool declarations as the request body has them
  tools,          \* the tool declarations after OllamaChatRequest.parse
  openaiTools,    \* what convertRaycastToolsToOpenAI returned
  chatConfigTools,\* the tools field of chatConfig
  script          \* the chunks the upstream will send to the request, in order

cleanupVars == <<aborted, abortCalls, cleanupCalls, timerStops, pingInterval>>
loopVars == <<reasoning, finalToolCalls, finish_reason, nDeltas, lastChunk, nOpened, fragLog,
              suppliedReason>>
callVars == <<allModels, abortController, upstreamCalls, httpError>>
messageVars == <<messages, openaiMessages, toolCallIds, minted>>
toolVars == <<bodyPc, rawTools, tools, openaiTools, chatConfigTools>>
bodyVars == <<messageVars, toolVars>>
connVars == <<conn, closedAt, writesAtClose>>
resVars == <<headersSent, closeHandler, resEnded, writes, nPings>>

vars == <<pc, outcome, requestedModel, conn, headersSent, closeHandler, resEnded,
          pingInterval, aborted, abortCalls, cleanupCalls, timerStops, writes,
          reasoning, finalToolCalls, finish_reason, nDeltas, nPings, lastChunk,
          nOpened, fragLog, closedAt, writesAtClose, suppliedReason, allModels,
          abortController, upstreamCalls, httpError, messages, openaiMessages,
          toolCallIds, minted, bodyPc, rawTools, tools, openaiTools, chatConfigTools,
          script>>

\* The tool-call indices the upstream uses.
ToolIndexes == {0, 1}

\* A chunk without choices: what lastChunk holds before the first chunk.
NoChunk == [delta |-> None, finish_reason |-> None]

\* ------------------------------------------------- outbound frames (util)

\* The characters of the argument texts the upstream sends in this model.
ArgChars == {"{", "}", "1"}

\* A text of decimal digits (here: of the digit 1 only), at least one.
IsDigits(t) == Len(t) >= 1 /\ \A i \in 1..Len(t) : t[i] = "1"

RECURSIVE NumVal(_)
NumVal(t) == IF Len(t) = 0 THEN 0 ELSE 10 * NumVal(SubSeq(t, 1, Len(t) - 1)) + 1

\* JSON.parse on a text over ArgChars: "{}" is the empty object, a run of digits
\* is a number, and every other text (the empty one included) is a SyntaxError.
ParseJSON(t) ==
  IF t = <<"{", "}">> THEN [ok |-> TRUE, value |-> [type |-> "object", n |-> 0]]
  ELSE IF IsDigits(t) THEN [ok |-> TRUE, value |-> [type |-> "number", n |-> NumVal(t)]]
  ELSE [ok |-> FALSE, value |-> [type |-> "error", n |-> 0]]

\* tc.function.arguments || '{}' in makeOllamaChunk.
ArgsOrEmptyObject(t) == IF t = <<>> THEN <<"{", "}">> ELSE t

\* A conversion that keeps the entries without a function name.
RECURSIVE KeptToolCallsKeepsUnnamed(_, _)
KeptToolCallsKeepsUnnamed(toolCalls, keys) ==
  IF keys = {} THEN <<>>
  ELSE LET k == CHOOSE x \in keys : \A y \in keys : x <= y
           rest == KeptToolCallsKeepsUnnamed(toolCalls, keys \ {k})
       IN IF toolCalls[k] = None THEN rest
          ELSE LET tc == toolCalls[k][1]
                   parsed == ParseJSON(ArgsOrEmptyObject(tc.function.arguments))
               IN IF ~parsed.ok THEN rest
                  ELSE <<[key |-> k,
                          call |-> [function |-> [name |-> tc.function.name,
                                                  arguments |-> parsed.value]]]>> \o rest

\* A conversion that keeps the entries whose argument text does not parse.
RECURSIVE KeptToolCallsKeepsUnparsed(_, _)
KeptToolCallsKeepsUnparsed(toolCalls, keys) ==
  IF keys = {} THEN <<>>
  ELSE LET k == CHOOSE x \in keys : \A y \in keys : x <= y
           rest == KeptToolCallsKeepsUnparsed(toolCalls, keys \ {k})
       IN IF toolCalls[k] = None THEN rest
          ELSE LET tc == toolCalls[k][1]
                   parsed == ParseJSON(ArgsOrEmptyObject(tc.function.arguments))
               IN IF tc.function.name = "" THEN rest
                  ELSE <<[key |-> k,
                          call |-> [function |-> [name |-> tc.function.name,
                                                  arguments |-> parsed.value]]]>> \o rest

\* The loop of makeOllamaChunk over the keys of toolCalls ("for (const key in
\* toolCalls)" visits integer keys in ascending order): skip an entry without a
\* function name, skip an entry whose arguments do not parse, keep the others.
\* Each kept entry is paired with its key.
RECURSIVE KeptToolCalls(_, _)
KeptToolCalls(toolCalls, keys) ==
  IF keys = {} THEN <<>>
  ELSE LET k == CHOOSE x \in keys : \A y \in keys : x <= y
           rest == KeptToolCalls(toolCalls, keys \ {k})
       IN IF toolCalls[k] = None THEN rest
          ELSE LET tc == toolCalls[k][1]
                   parsed == ParseJSON(ArgsOrEmptyObject(tc.function.arguments))
               IN IF tc.function.name = "" THEN rest
                  ELSE IF ~parsed.ok THEN rest
                  ELSE <<[key |-> k,
                          call |-> [function |-> [name |-> tc.function.name,
                                                  arguments |-> parsed.value]]]>> \o rest

\* The list makeOllamaChunk pushes to, and the keys its entries come from.
ConvertToolCalls(toolCalls) ==
  LET kept == KeptToolCalls(toolCalls, DOMAIN toolCalls)
  IN [i \in 1..Len(kept) |-> kept[i].call]
SurvivingKeys(toolCalls) ==
  LET kept == KeptToolCalls(toolCalls, DOMAIN toolCalls)
  IN [i \in 1..Len(kept) |-> kept[i].key]

\* makeOllamaChunk(model, content, done, done_reason, toolCalls). created_at (the
\* wall clock) is left out: nothing reads it.
MakeOllamaChunk(model, content, done, done_reason, toolCalls) ==
  LET converted == IF toolCalls = None THEN <<>> ELSE ConvertToolCalls(toolCalls[1])
  IN [model |-> model,
      message |-> [role |-> "assistant",
                   content |-> content,
                   tool_calls |-> IF Len(converted) > 0 THEN Some(converted) ELSE None],
      done |-> done,
      done_reason |-> done_reason]

\* One res.write: the body written and, for the record, the ordinal of the chunk
\* whose handling wrote it (0 for a timer tick). makeSSEMessage serialises the
\* frame as JSON followed by a blank line, which is one-to-one, so the frame
\* itself stands for its text.
FrameWrite(frame, cause) == [body |-> "frame", frame |-> Some(frame), cause |-> cause]
PingWrite == [body |-> "newline", frame |-> None, cause |-> 0]

\* A response that puts the newest data first.
ResWritePrepend(written, data) == data \o written

\* res.write(data): the data goes after everything written before.
ResWrite(written, data) == written \o data

\* ------------------------------------------ the loop body of chatCompletion

\* A sequencer whose first arm forgets to enter Reasoning.
SequencerStaysIdle(reas, reasoning_content, content) ==
  IF ~reas /\ MinLength1(reasoning_content)
  THEN [reasoning |-> reas,
        written |-> <<"<think>">>,
        outputContent |-> reasoning_content[1]]
  ELSE IF reas /\ MinLength1(reasoning_content)
  THEN [reasoning |-> reas,
        written |-> <<>>,
        outputContent |-> OrEmptyString(reasoning_content)]
  ELSE IF reas /\ MinLength1(content)
  THEN [reasoning |-> FALSE,
        written |-> (IF OrEmptyString(reasoning_content) # ""
                     THEN <<reasoning_content[1]>> ELSE <<>>) \o <<"</think>">>,
        outputContent |-> content[1]]
  ELSE [reasoning |-> reas,
        written |-> <<>>,
        outputContent |-> OrEmptyString(content)]

\* A sequencer that writes the regular text of a delta after its reasoning text.
SequencerWritesBoth(reas, reasoning_content, content) ==
  IF ~reas /\ MinLength1(reasoning_content)
  THEN [reasoning |-> TRUE,
        written |-> <<"<think>">>,
        outputContent |-> reasoning_content[1] \o OrEmptyString(content)]
  ELSE IF reas /\ MinLength1(reasoning_content)
  THEN [reasoning |-> reas,
        written |-> <<>>,
        outputContent |-> OrEmptyString(reasoning_content) \o OrEmptyString(content)]
  ELSE IF reas /\ MinLength1(content)
  THEN [reasoning |-> FALSE,
        written |-> (IF OrEmptyString(reasoning_content) # ""
                     THEN <<reasoning_content[1]>> ELSE <<>>) \o <<"</think>">>,
        outputContent |-> content[1]]
  ELSE [reasoning |-> reas,
        written |-> <<>>,
        outputContent |-> OrEmptyString(content)]

\* A sequencer that tries the content arm of Reasoning before the reasoning arm.
SequencerContentFirst(reas, reasoning_content, content) ==
  IF ~reas /\ MinLength1(reasoning_content)
  THEN [reasoning |-> TRUE,
        written |-> <<"<think>">>,
        outputContent |-> reasoning_content[1]]
  ELSE IF reas /\ MinLength1(content)
  THEN [reasoning |-> FALSE,
        written |-> (IF OrEmptyString(reasoning_content) # ""
                     THEN <<reasoning_content[1]>> ELSE <<>>) \o <<"</think>">>,
        outputContent |-> content[1]]
  ELSE IF reas /\ MinLength1(reasoning_content)
  THEN [reasoning |-> reas,
        written |-> <<>>,
        outputContent |-> OrEmptyString(reasoning_content)]
  ELSE [reasoning |-> reas,
        written |-> <<>>,
        outputContent |-> OrEmptyString(content)]

\* The match on {reasoning_content, content, reasoning}: the first arm that
\* matches decides. The result names the next sequencer mode, the contents
\* written inside the arm (the delimiter frames) and outputContent.
Sequencer(reas, reasoning_content, content) ==
  IF ~reas /\ MinLength1(reasoning_content)
  THEN [reasoning |-> TRUE,
        written |-> <<"<think>">>,
        outputContent |-> reasoning_content[1]]
  ELSE IF reas /\ MinLength1(reasoning_content)
  THEN [reasoning |-> reas,
        written |-> <<>>,
        outputContent |-> OrEmptyString(reasoning_content)]
  ELSE IF reas /\ MinLength1(content)
  THEN [reasoning |-> FALSE,
        written |-> (IF OrEmptyString(reasoning_content) # ""
                     THEN <<reasoning_content[1]>> ELSE <<>>) \o <<"</think>">>,
        outputContent |-> content[1]]
  ELSE [reasoning |-> reas,
        written |-> <<>>,
        outputContent |-> OrEmptyString(content)]

\* A loop body that writes the frame of outputContent even when that is empty.
ContentWritesAlways(model, seqr, cause) ==
  [i \in 1..Len(seqr.written) |->
     FrameWrite(MakeOllamaChunk(model, seqr.written[i], FALSE, None, None), cause)]
  \o <<FrameWrite(MakeOllamaChunk(model, seqr.outputContent, FALSE, None, None), cause)>>

\* The writes one loop iteration makes for its texts: the frames of the arm,
\* then the frame of outputContent when that is not empty.
ContentWrites(model, seqr, cause) ==
  [i \in 1..Len(seqr.written) |->
     FrameWrite(MakeOllamaChunk(model, seqr.written[i], FALSE, None, None), cause)]
  \o (IF seqr.outputContent # ""
      THEN <<FrameWrite(MakeOllamaChunk(model, seqr.outputContent, FALSE, None, None), cause)>>
      ELSE <<>>)

\* toolCall.function?.name || '' and toolCall.function?.arguments || ''.
FragmentName(toolCall) ==
  IF toolCall.function = None THEN "" ELSE OrEmptyString(toolCall.function[1].name)
FragmentArguments(toolCall) ==
  IF toolCall.function = None THEN <<>> ELSE OrEmptyText(toolCall.function[1].arguments)

\* An accumulator whose later sightings replace the argument text.
AccumulateOneOverwrites(acc, toolCall) ==
  LET index == toolCall.index
  IN [acc EXCEPT ![index] =
        Some([index |-> toolCall.index,
              id |-> IF acc[index] = None THEN toolCall.id ELSE acc[index][1].id,
              type |-> IF acc[index] = None THEN toolCall.type ELSE acc[index][1].type,
              function |-> [name |-> IF acc[index] = None THEN FragmentName(toolCall)
                                     ELSE acc[index][1].function.name,
                            arguments |-> FragmentArguments(toolCall)]])]

\* An accumulator whose later sightings fill in an id and a name the entry lacks.
AccumulateOneAdoptsIdentity(acc, toolCall) ==
  LET index == toolCall.index
  IN IF acc[index] = None
     THEN [acc EXCEPT ![index] =
             Some([index |-> toolCall.index,
                   id |-> toolCall.id,
                   type |-> toolCall.type,
                   function |-> [name |-> FragmentName(toolCall),
                                 arguments |-> FragmentArguments(toolCall)]])]
     ELSE LET old == acc[index][1]
          IN [acc EXCEPT ![index] =
                Some([index |-> old.index,
                      id |-> IF old.id = None THEN toolCall.id ELSE old.id,
                      type |-> old.type,
                      function |-> [name |-> IF old.function.name = ""
                                             THEN FragmentName(toolCall)
                                             ELSE old.function.name,
                                    arguments |-> old.function.arguments
                                                  \o FragmentArguments(toolCall)]])]

\* The body of "for (const toolCall of toolCalls)": the first sighting of an index
\* creates the entry, a later one appends its argument text.
AccumulateOne(acc, toolCall) ==
  LET index == toolCall.index
  IN IF acc[index] = None
     THEN [acc EXCEPT ![index] =
             Some([index |-> toolCall.index,
                   id |-> toolCall.id,
                   type |-> toolCall.type,
                   function |-> [name |-> FragmentName(toolCall),
                                 arguments |-> FragmentArguments(toolCall)]])]
     ELSE [acc EXCEPT ![index] =
             Some([acc[index][1] EXCEPT !.function.arguments =
                     @ \o FragmentArguments(toolCall)])]

\* "if (toolCalls) for (const toolCall of toolCalls) ...", from fragment i on.
RECURSIVE Accumulate(_, _, _)
Accumulate(acc, toolCalls, i) ==
  IF i > Len(toolCalls) THEN acc
  ELSE Accumulate(AccumulateOne(acc, toolCalls[i]), toolCalls, i + 1)

\* A mapping that passes every terminal reason through.
MapFinishReasonPassThrough(current, reason) ==
  IF reason = None \/ reason = Some("") THEN current ELSE reason

\* The mapping of chunk.choices[0]?.finish_reason onto done_reason.
MapFinishReason(current, reason) ==
  IF reason = None \/ reason = Some("") THEN current
  ELSE IF reason[1] = "stop" \/ reason[1] = "tool_calls" THEN reason
  ELSE Some("stop")

\* The accumulator before any fragment: const finalToolCalls = {}.
EmptyToolCalls == [k \in ToolIndexes |-> None]

\* --------------------------------------------------------------- inputs

\* The reasoning texts and the regular texts a delta may carry.
ReasoningTexts == {None, Some(""), Some("r")}
ContentTexts == {None, Some(""), Some("c")}

\* The terminal reasons a chunk may carry.
FinishReasons == {None, Some("stop"), Some("tool_calls"), Some("length")}

TextDelta(rc, c) == [reasoning_content |-> rc, content |-> c, tool_calls |-> None]
ToolDelta(frags) == [reasoning_content |-> None, content |-> None, tool_calls |-> Some(frags)]

Fragment(index, id, type, name, arguments) ==
  [index |-> index, id |-> id, type |-> type,
   function |-> Some([name |-> name, arguments |-> arguments])]

\* ------------------------------------------------------------- actions

\* new HttpError(status, message).
HttpError(status, message) == [status |-> status, message |-> message]

\* The template `Model ${requestedModel} not found`.
ModelNotFound(modelName) == <<"Model ", modelName, " not found">>

\* The locals of the handlers before they have looked at their requests.
LocalsInit ==
  /\ outcome = [r \in Reqs |-> "none"]
  /\ requestedModel = [r \in Reqs |-> ""]
  /\ conn = [r \in Reqs |-> "open"]
  /\ headersSent = [r \in Reqs |-> FALSE]
  /\ closeHandler = [r \in Reqs |-> FALSE]
  /\ resEnded = [r \in Reqs |-> FALSE]
  /\ pingInterval = [r \in Reqs |-> "unset"]
  /\ aborted = [r \in Reqs |-> FALSE]
  /\ abortCalls = [r \in Reqs |-> 0]
  /\ cleanupCalls = [r \in Reqs |-> 0]
  /\ timerStops = [r \in Reqs |-> 0]
  /\ writes = [r \in Reqs |-> <<>>]
  /\ reasoning = [r \in Reqs |-> FALSE]
  /\ finalToolCalls = [r \in Reqs |-> EmptyToolCalls]
  /\ finish_reason = [r \in Reqs |-> None]
  /\ nDeltas = [r \in Reqs |-> 0]
  /\ nPings = [r \in Reqs |-> 0]
  /\ lastChunk = [r \in Reqs |-> NoChunk]
  /\ nOpened = [r \in Reqs |-> 0]
  /\ fragLog = [r \in Reqs |-> <<>>]
  /\ closedAt = [r \in Reqs |-> "none"]
  /\ writesAtClose = [r \in Reqs |-> 0]
  /\ suppliedReason = [r \in Reqs |-> None]
  /\ allModels = [r \in Reqs |-> <<>>]
  /\ abortController = [r \in Reqs |-> "none"]
  /\ upstreamCalls = [r \in Reqs |-> 0]
  /\ httpError = [r \in Reqs |-> None]

\* A translation call that has visited no message: const toolCallIds = [].
MessagesInit ==
  /\ messages = <<>>
  /\ openaiMessages = <<>>
  /\ toolCallIds = <<>>
  /\ minted = 0

\* A request body without tool declarations, not looked at yet.
ToolsInit ==
  /\ bodyPc = "raw"
  /\ rawTools = <<>>
  /\ tools = <<>>
  /\ openaiTools = None
  /\ chatConfigTools = [present |-> FALSE, value |-> <<>>]

\* One request has arrived; its upstream stream is not laid down in advance.
HandlerInit ==
  /\ pc = [r \in Reqs |-> IF r = 1 THEN "idle" ELSE "absent"]
  /\ script = [r \in Reqs |-> <<>>]
  /\ LocalsInit

Init == HandlerInit /\ MessagesInit /\ ToolsInit

\* A cleanup that forgets clearInterval.
CleanupKeepsTimer(r) ==
  /\ abortCalls' = [abortCalls EXCEPT ![r] = IF aborted[r] THEN @ ELSE @ + 1]
  /\ aborted' = [aborted EXCEPT ![r] = TRUE]
  /\ cleanupCalls' = [cleanupCalls EXCEPT ![r] = @ + 1]
  /\ UNCHANGED <<timerStops, pingInterval>>

\* A cleanup that calls abort() without looking at the signal.
CleanupUnguarded(r) ==
  /\ abortCalls' = [abortCalls EXCEPT ![r] = @ + 1]
  /\ aborted' = [aborted EXCEPT ![r] = TRUE]
  /\ timerStops' = [timerStops EXCEPT ![r] = IF pingInterval[r] = "running" THEN @ + 1 ELSE @]
  /\ pingInterval' = [pingInterval EXCEPT ![r] = IF @ = "running" THEN "cleared" ELSE @]
  /\ cleanupCalls' = [cleanupCalls EXCEPT ![r] = @ + 1]

\* A cleanup whose token and timer are shared by all requests.
CleanupShared(r) ==
  /\ abortCalls' = [abortCalls EXCEPT ![r] = IF aborted[r] THEN @ ELSE @ + 1]
  /\ aborted' = [q \in Reqs |-> TRUE]
  /\ timerStops' = [timerStops EXCEPT ![r] = IF pingInterval[r] = "running" THEN @ + 1 ELSE @]
  /\ pingInterval' = [q \in Reqs |->
                        IF pingInterval[q] = "running" THEN "cleared" ELSE pingInterval[q]]
  /\ cleanupCalls' = [cleanupCalls EXCEPT ![r] = @ + 1]

\* cleanup(): abort the token unless it is aborted already, clear the timer.
Cleanup(r) ==
  /\ abortCalls' = [abortCalls EXCEPT ![r] = IF aborted[r] THEN @ ELSE @ + 1]
  /\ aborted' = [aborted EXCEPT ![r] = TRUE]
  /\ timerStops' = [timerStops EXCEPT ![r] = IF pingInterval[r] = "running" THEN @ + 1 ELSE @]
  /\ pingInterval' = [pingInterval EXCEPT ![r] = IF @ = "running" THEN "cleared" ELSE @]
  /\ cleanupCalls' = [cleanupCalls EXCEPT ![r] = @ + 1]

\* A /chat request arrives; the body parses; fetchLocalOllamaModels is awaited.
Receive(r, model) ==
  /\ pc[r] = "idle"
  /\ pc' = [pc EXCEPT ![r] = "discover"]
  /\ requestedModel' = [requestedModel EXCEPT ![r] = model]
  /\ UNCHANGED <<outcome, callVars, bodyVars, script, cleanupVars, loopVars, connVars, resVars>>

\* A handler that starts the keep-alive timer before it awaits the upstream call.
ResolveStartsTimer(r, localModels) ==
  /\ pc[r] = "discover"
  /\ allModels' = [allModels EXCEPT ![r] = ConfiguredModels \o localModels]
  /\ IF FindModelConfig(ConfiguredModels \o localModels, requestedModel[r]) = None
     THEN /\ pc' = [pc EXCEPT ![r] = "done"]
          /\ outcome' = [outcome EXCEPT ![r] = "http400"]
          /\ httpError' = [httpError EXCEPT ![r] =
                             Some(HttpError(400, ModelNotFound(requestedModel[r])))]
          /\ UNCHANGED <<abortController, upstreamCalls, pingInterval>>
     ELSE /\ pc' = [pc EXCEPT ![r] = "opening"]
          /\ abortController' = [abortController EXCEPT ![r] = "created"]
          /\ upstreamCalls' = [upstreamCalls EXCEPT ![r] = @ + 1]
          /\ pingInterval' = [pingInterval EXCEPT ![r] = "running"]
          /\ UNCHANGED <<outcome, httpError>>
  /\ UNCHANGED <<requestedModel, bodyVars, script, aborted, abortCalls, cleanupCalls, timerStops,
                 loopVars, connVars, resVars>>

\* The discovery returns: the model is looked up among the configured and the
\* local models. Not found: HttpError(400). Found: the token is created and the
\* upstream call is issued with it and awaited.
Resolve(r, localModels) ==
  /\ pc[r] = "discover"
  /\ allModels' = [allModels EXCEPT ![r] = ConfiguredModels \o localModels]
  /\ IF FindModelConfig(ConfiguredModels \o localModels, requestedModel[r]) = None
     THEN /\ pc' = [pc EXCEPT ![r] = "done"]
          /\ outcome' = [outcome EXCEPT ![r] = "http400"]
          /\ httpError' = [httpError EXCEPT ![r] =
                             Some(HttpError(400, ModelNotFound(requestedModel[r])))]
          /\ UNCHANGED <<abortController, upstreamCalls>>
     ELSE /\ pc' = [pc EXCEPT ![r] = "opening"]
          /\ abortController' = [abortController EXCEPT ![r] = "created"]
          /\ upstreamCalls' = [upstreamCalls EXCEPT ![r] = @ + 1]
          /\ UNCHANGED <<outcome, httpError>>
  /\ UNCHANGED <<requestedModel, bodyVars, script, cleanupVars, loopVars, connVars, resVars>>

\* create() resolves: the headers are committed, the timer is started, the close
\* handler is registered, and the loop awaits the first chunk.
OpenOk(r) ==
  /\ pc[r] = "opening"
  /\ pc' = [pc EXCEPT ![r] = "streaming"]
  /\ headersSent' = [headersSent EXCEPT ![r] = TRUE]
  /\ pingInterval' = [pingInterval EXCEPT ![r] = "running"]
  /\ closeHandler' = [closeHandler EXCEPT ![r] = TRUE]
  /\ UNCHANGED <<outcome, requestedModel, callVars, bodyVars, script, aborted, abortCalls, cleanupCalls, timerStops,
                 loopVars, connVars, resEnded, writes, nPings>>

\* create() rejects: the finally block runs cleanup and the error propagates.
OpenFail(r) ==
  /\ pc[r] = "opening"
  /\ pc' = [pc EXCEPT ![r] = "done"]
  /\ outcome' = [outcome EXCEPT ![r] = "openfail"]
  /\ Cleanup(r)
  /\ UNCHANGED <<requestedModel, callVars, bodyVars, script, loopVars, connVars, resVars>>

\* One iteration of "for await (const chunk of stream)". An aborted upstream
\* call delivers no further chunk.
OnChunk(r, chunk) ==
  /\ pc[r] = "streaming"
  /\ ~aborted[r]
  /\ nDeltas[r] < MaxDeltas
  /\ nDeltas' = [nDeltas EXCEPT ![r] = @ + 1]
  /\ lastChunk' = [lastChunk EXCEPT ![r] = chunk]
  /\ suppliedReason' = [suppliedReason EXCEPT ![r] =
                          IF chunk.finish_reason = None THEN @ ELSE chunk.finish_reason]
  /\ IF chunk.delta = None
     THEN UNCHANGED <<writes, reasoning, finalToolCalls, finish_reason, nOpened, fragLog>>
     ELSE LET delta == chunk.delta[1]
              seqr == Sequencer(reasoning[r], delta.reasoning_content, delta.content)
              toolCalls == IF delta.tool_calls = None THEN <<>> ELSE delta.tool_calls[1]
          IN /\ writes' = [writes EXCEPT ![r] =
                             ResWrite(@, ContentWrites(requestedModel[r], seqr, nDeltas[r] + 1))]
             /\ reasoning' = [reasoning EXCEPT ![r] = seqr.reasoning]
             /\ nOpened' = [nOpened EXCEPT ![r] =
                              IF ~reasoning[r] /\ seqr.reasoning THEN @ + 1 ELSE @]
             /\ finalToolCalls' = [finalToolCalls EXCEPT ![r] = Accumulate(@, toolCalls, 1)]
             /\ fragLog' = [fragLog EXCEPT ![r] = @ \o toolCalls]
             /\ finish_reason' = [finish_reason EXCEPT ![r] =
                                    MapFinishReason(@, chunk.finish_reason)]
  /\ UNCHANGED <<pc, outcome, requestedModel, callVars, bodyVars, script, cleanupVars, connVars,
                 headersSent, closeHandler, resEnded, nPings>>

\* The terminal frame: makeOllamaChunk(requestedModel, '', true, finish_reason,
\* finalToolCalls).
FinalChunk(r) ==
  MakeOllamaChunk(requestedModel[r], "", TRUE, finish_reason[r], Some(finalToolCalls[r]))

\* A stream end that closes a reasoning block left open before the terminal frame.
StreamEndClosesThink(r) ==
  /\ pc[r] = "streaming"
  /\ writes' = [writes EXCEPT ![r] =
                  ResWrite(@, (IF reasoning[r]
                               THEN <<FrameWrite(MakeOllamaChunk(requestedModel[r], "</think>",
                                                                 FALSE, None, None), 0)>>
                               ELSE <<>>)
                              \o <<FrameWrite(FinalChunk(r), 0)>>)]
  /\ resEnded' = [resEnded EXCEPT ![r] = TRUE]
  /\ Cleanup(r)
  /\ pc' = [pc EXCEPT ![r] = "done"]
  /\ outcome' = [outcome EXCEPT ![r] = "ok"]
  /\ UNCHANGED <<requestedModel, callVars, bodyVars, script, loopVars, connVars, headersSent,
                 closeHandler, nPings>>

\* A stream end that writes the terminal frame and forgets res.end().
StreamEndWithoutEnd(r) ==
  /\ pc[r] = "streaming"
  /\ writes' = [writes EXCEPT ![r] = ResWrite(@, <<FrameWrite(FinalChunk(r), 0)>>)]
  /\ Cleanup(r)
  /\ pc' = [pc EXCEPT ![r] = "done"]
  /\ outcome' = [outcome EXCEPT ![r] = "ok"]
  /\ UNCHANGED <<requestedModel, callVars, bodyVars, script, loopVars, connVars, headersSent,
                 closeHandler, resEnded, nPings>>

\* The upstream iteration ends without an error (also the way the SDK's
\* iterator ends once its call is aborted): the terminal frame is written, the
\* response is ended, and the finally block runs cleanup.
StreamEnd(r) ==
  /\ pc[r] = "streaming"
  /\ writes' = [writes EXCEPT ![r] = ResWrite(@, <<FrameWrite(FinalChunk(r), 0)>>)]
  /\ resEnded' = [resEnded EXCEPT ![r] = TRUE]
  /\ Cleanup(r)
  /\ pc' = [pc EXCEPT ![r] = "done"]
  /\ outcome' = [outcome EXCEPT ![r] = "ok"]
  /\ UNCHANGED <<requestedModel, callVars, bodyVars, script, loopVars, connVars, headersSent, closeHandler, nPings>>

\* A mid-stream error that leaves the handler without the finally block.
StreamErrorWithoutFinally(r) ==
  /\ pc[r] = "streaming"
  /\ pc' = [pc EXCEPT ![r] = "done"]
  /\ outcome' = [outcome EXCEPT ![r] = "streamerr"]
  /\ UNCHANGED <<requestedModel, callVars, bodyVars, script, cleanupVars, loopVars, connVars, resVars>>

\* A handler that catches a mid-stream error and still writes the terminal frame.
StreamErrorWritesFinal(r) ==
  /\ pc[r] = "streaming"
  /\ writes' = [writes EXCEPT ![r] = ResWrite(@, <<FrameWrite(FinalChunk(r), 0)>>)]
  /\ resEnded' = [resEnded EXCEPT ![r] = TRUE]
  /\ Cleanup(r)
  /\ pc' = [pc EXCEPT ![r] = "done"]
  /\ outcome' = [outcome EXCEPT ![r] = "streamerr"]
  /\ UNCHANGED <<requestedModel, callVars, bodyVars, script, loopVars, connVars, headersSent, closeHandler, nPings>>

\* The upstream iteration throws: the finally block runs cleanup and the error
\* propagates.
StreamError(r) ==
  /\ pc[r] = "streaming"
  /\ Cleanup(r)
  /\ pc' = [pc EXCEPT ![r] = "done"]
  /\ outcome' = [outcome EXCEPT ![r] = "streamerr"]
  /\ UNCHANGED <<requestedModel, callVars, bodyVars, script, loopVars, connVars, resVars>>

\* A timer that is started with the handler and that nothing stops.
PingAnyTime(r) ==
  /\ pc[r] \notin {"absent", "idle"}
  /\ nPings[r] < MaxPings
  /\ nPings' = [nPings EXCEPT ![r] = @ + 1]
  /\ writes' = [writes EXCEPT ![r] = ResWrite(@, <<PingWrite>>)]
  /\ UNCHANGED <<pc, outcome, requestedModel, callVars, bodyVars, script, cleanupVars, loopVars,
                 connVars, headersSent, closeHandler, resEnded>>

\* A tick of the keep-alive timer: res.write('\n').
Ping(r) ==
  /\ pingInterval[r] = "running"
  /\ nPings[r] < MaxPings
  /\ nPings' = [nPings EXCEPT ![r] = @ + 1]
  /\ writes' = [writes EXCEPT ![r] = ResWrite(@, <<PingWrite>>)]
  /\ UNCHANGED <<pc, outcome, requestedModel, callVars, bodyVars, script, cleanupVars, loopVars, connVars,
                 headersSent, closeHandler, resEnded>>

\* The 'close' event of the response: it is emitted once, and it calls the
\* handler only if one is registered by then.
EmitClose(r) ==
  /\ conn' = [conn EXCEPT ![r] = "closed"]
  /\ closedAt' = [closedAt EXCEPT ![r] = pc[r]]
  /\ writesAtClose' = [writesAtClose EXCEPT ![r] = Len(writes[r])]
  /\ IF closeHandler[r] THEN Cleanup(r) ELSE UNCHANGED cleanupVars

\* The client disconnects while the handler is suspended.
Disconnect(r) ==
  /\ conn[r] = "open"
  /\ pc[r] \in {"discover", "opening", "streaming"}
  /\ EmitClose(r)
  /\ UNCHANGED <<pc, outcome, requestedModel, callVars, bodyVars, script, loopVars, resVars>>

\* The connection closes after the handler has returned or thrown.
SocketClose(r) ==
  /\ conn[r] = "open"
  /\ pc[r] = "done"
  /\ EmitClose(r)
  /\ UNCHANGED <<pc, outcome, requestedModel, callVars, bodyVars, script, loopVars, resVars>>

\* What happens to a request apart from the chunks it receives.
Lifecycle(r) ==
  \/ \E model \in RequestedNames : Receive(r, model)
  \/ \E localModels \in LocalModelLists : Resolve(r, localModels)
  \/ OpenOk(r)
  \/ OpenFail(r)
  \/ StreamEnd(r)
  \/ StreamError(r)
  \/ Ping(r)
  \/ Disconnect(r)
  \/ SocketClose(r)

\* The chunks of the relay specification: every pair of texts, each terminal
\* reason, a chunk without choices, and tool-call fragments.
RelayChunks ==
  {[delta |-> Some(TextDelta(rc, c)), finish_reason |-> None] :
     rc \in ReasoningTexts, c \in ContentTexts}
  \cup {[delta |-> Some(TextDelta(None, None)), finish_reason |-> f] : f \in FinishReasons}
  \cup {NoChunk}
  \cup {[delta |-> Some(ToolDelta(<<Fragment(0, Some("a"), Some("function"), Some("f"), a)>>)),
         finish_reason |-> None] : a \in {Some(<<"{">>), Some(<<"}">>)}}

Next ==
  \E r \in Reqs :
    \/ Lifecycle(r)
    \/ \E chunk \in RelayChunks : OnChunk(r, chunk)

Spec == Init /\ [][Next]_vars

\* The id, type and function name a fragment may carry: all three, all three
\* with other values, or none of them.
FragmentIdentities ==
  {[id |-> Some("a"), type |-> Some("function"), name |-> Some("f")],
   [id |-> Some("b"), type |-> Some("function"), name |-> Some("g")],
   [id |-> None, type |-> None, name |-> None]}

\* The argument texts a fragment may carry.
FragmentTexts == {None, Some(<<"{">>), Some(<<"}">>), Some(<<"1">>)}

Fragments ==
  {Fragment(k, i.id, i.type, i.name, a) :
     k \in ToolIndexes, i \in FragmentIdentities, a \in FragmentTexts}

\* The chunks of the tool-call specification: one fragment per delta, two
\* fragments in one delta (of one index, and of two), a fragment without a
\* function, a content delta, and a terminal reason.
ToolChunks ==
  {[delta |-> Some(ToolDelta(<<f>>)), finish_reason |-> None] : f \in Fragments}
  \cup {[delta |-> Some(ToolDelta(<<Fragment(0, Some("a"), Some("function"), Some("f"), Some(<<"{">>)),
                                    Fragment(k, None, None, None, Some(<<"}">>))>>)),
         finish_reason |-> None] : k \in ToolIndexes}
  \cup {[delta |-> Some(ToolDelta(<<[index |-> 1, id |-> Some("b"), type |-> None,
                                     function |-> None]>>)),
         finish_reason |-> None]}
  \cup {[delta |-> Some(TextDelta(None, Some("c"))), finish_reason |-> None]}
  \cup {[delta |-> Some(TextDelta(None, None)), finish_reason |-> Some("tool_calls")]}

\* A request for a configured model whose client stays connected and whose
\* upstream stream delivers tool-call fragments and ends without an error.
NextTools ==
  \E r \in Reqs :
    \/ Receive(r, "gpt")
    \/ Resolve(r, <<>>)
    \/ OpenOk(r)
    \/ \E chunk \in ToolChunks : OnChunk(r, chunk)
    \/ StreamEnd(r)

SpecTools == Init /\ [][NextTools]_vars

\* -------------------------------------------------- concurrent requests

\* The length of the stream each of the two concurrent requests is sent.
MaxScript == 2

\* The chunks of the concurrent specification: a reasoning text, a content
\* text, and a tool-call fragment with the terminal reason.
ReasoningChunk == [delta |-> Some(TextDelta(Some("r"), None)), finish_reason |-> None]
ContentChunk == [delta |-> Some(TextDelta(None, Some("c"))), finish_reason |-> None]
ToolCallChunk ==
  [delta |-> Some(ToolDelta(<<Fragment(0, Some("a"), Some("function"), Some("f"),
                                       Some(<<"{", "}">>))>>)),
   finish_reason |-> Some("tool_calls")]
ConcurrentChunks == {ReasoningChunk, ContentChunk, ToolCallChunk}

\* The streams the upstream may send to the first request: every one.
Scripts == [1..MaxScript -> ConcurrentChunks]

\* The stream the upstream sends to the second request: reasoning, then
\* content, then a tool call, and so on in turn.
OtherScript ==
  [i \in 1..MaxScript |->
     IF i % 3 = 1 THEN ReasoningChunk ELSE IF i % 3 = 2 THEN ContentChunk ELSE ToolCallChunk]

\* The model each of the two requests asks for.
ConcurrentModel(r) == IF r = 1 THEN "gpt" ELSE "llama [Local]"

\* Two requests have arrived; the stream of each is laid down.
InitConcurrent ==
  /\ pc = [r \in Reqs |-> "idle"]
  /\ \E first \in Scripts : script = [r \in Reqs |-> IF r = 1 THEN first ELSE OtherScript]
  /\ LocalsInit
  /\ MessagesInit
  /\ ToolsInit

\* The loop of request r takes the next chunk of its stream.
ScriptedChunk(r) ==
  /\ nDeltas[r] < Len(script[r])
  /\ OnChunk(r, script[r][nDeltas[r] + 1])

NextConcurrent ==
  \E r \in Reqs :
    \/ Receive(r, ConcurrentModel(r))
    \/ Resolve(r, <<"llama [Local]">>)
    \/ OpenOk(r)
    \/ ScriptedChunk(r)
    \/ StreamEnd(r)
    \/ Ping(r)
    \/ Disconnect(r)

\* Two requests in flight at once, their steps interleaved in every way.
SpecConcurrent == InitConcurrent /\ [][NextConcurrent]_vars

\* ------------------------------------------------------ scripted texts

\* The chunks of the text specification: every pair of texts, a chunk without
\* choices, and a delta that carries a tool-call fragment only.
TextChunks ==
  {[delta |-> Some(TextDelta(rc, c)), finish_reason |-> None] :
     rc \in ReasoningTexts, c \in ContentTexts}
  \cup {NoChunk}
  \cup {[delta |-> Some(ToolDelta(<<Fragment(0, Some("a"), Some("function"), Some("f"),
                                            Some(<<"{", "}">>))>>)),
         finish_reason |-> None]}

\* The streams the upstream may send to the request.
TextScripts == [1..MaxDeltas -> TextChunks]

\* One request has arrived; its stream is laid down.
InitTexts ==
  /\ pc = [r \in Reqs |-> IF r = 1 THEN "idle" ELSE "absent"]
  /\ \E first \in TextScripts : script = [r \in Reqs |-> IF r = 1 THEN first ELSE <<>>]
  /\ LocalsInit
  /\ MessagesInit
  /\ ToolsInit

NextTexts ==
  \E r \in Reqs :
    \/ Receive(r, "gpt")
    \/ Resolve(r, <<>>)
    \/ OpenOk(r)
    \/ ScriptedChunk(r)
    \/ Ping(r)
    \/ StreamEnd(r)

\* A request whose client stays connected, relaying a stream laid down in
\* advance.
SpecTexts == InitTexts /\ [][NextTexts]_vars

\* ------------------------------------------------------- finite streams

\* The finite streams of the termination specification: every stream of at
\* most MaxDeltas chunks.
FiniteScripts == UNION {[1..n -> ConcurrentChunks] : n \in 0..MaxDeltas}

\* One request has arrived; its stream, of some finite length, is laid down.
InitFinite ==
  /\ pc = [r \in Reqs |-> IF r = 1 THEN "idle" ELSE "absent"]
  /\ \E first \in FiniteScripts : script = [r \in Reqs |-> IF r = 1 THEN first ELSE <<>>]
  /\ LocalsInit
  /\ MessagesInit
  /\ ToolsInit

\* The upstream iterator reports the end of the stream once every chunk of it
\* has been taken.
ScriptedEnd(r) ==
  /\ nDeltas[r] = Len(script[r])
  /\ StreamEnd(r)

NextFinite ==
  \E r \in Reqs :
    \/ Receive(r, "gpt")
    \/ Resolve(r, <<>>)
    \/ OpenOk(r)
    \/ OpenFail(r)
    \/ ScriptedChunk(r)
    \/ ScriptedEnd(r)
    \/ Ping(r)

\* A request whose client stays connected and whose upstream stream, once
\* open, is finite and ends without an error. The event loop resumes the
\* for-await loop whenever a chunk or the end of the stream is there to take:
\* weak fairness on both. The timer is free to tick or not.
SpecFinite ==
  /\ InitFinite
  /\ [][NextFinite]_vars
  /\ \A r \in Reqs : WF_vars(ScriptedChunk(r)) /\ WF_vars(ScriptedEnd(r))

\* ------------------------------------------------- message translation

\* The longest message list a translation call is given.
MaxMessages == 4

\* The arguments of a tool call of the request: an object, as the list of its
\* members. Member values are numbers, written as their text.
NoArguments == <<>>
OneArgument == <<[key |-> "q", value |-> "1"]>>

\* JSON.stringify of such an object, as a text (a list of tokens).
RECURSIVE StringifyMembers(_)
StringifyMembers(obj) ==
  IF obj = <<>> THEN <<>>
  ELSE <<"\"" \o obj[1].key \o "\"", ":", obj[1].value>>
       \o (IF Len(obj) > 1 THEN <<",">> ELSE <<>>)
       \o StringifyMembers(Tail(obj))
JSONStringify(obj) == <<"{">> \o StringifyMembers(obj) \o <<"}">>

\* A message of the request body (OllamaChatMessage).
OllamaMessage(role, images, content, tool_calls) ==
  [role |-> role, images |-> images, content |-> content, tool_calls |-> tool_calls]

RequestToolCall(name, arguments) == [function |-> [name |-> name, arguments |-> arguments]]

\* The messages a request body is made of: plain user messages, user messages
\* with an empty and with a non-empty image list, system messages without and
\* with an image, assistant
\* messages without tool calls, with none, one and two of them, and a tool
\* message.
OllamaMessages ==
  {OllamaMessage("user", None, c, None) : c \in {"x", "y"}}
  \cup {OllamaMessage("user", Some(i), "x", None) : i \in {<<>>, <<"img">>}}
  \cup {OllamaMessage("system", i, "s", None) : i \in {None, Some(<<"img">>)}}
  \cup {OllamaMessage("assistant", None, "a", t) :
          t \in {None, Some(<<>>),
                 Some(<<RequestToolCall("f", NoArguments)>>),
                 Some(<<RequestToolCall("f", NoArguments),
                        RequestToolCall("g", OneArgument)>>)}}
  \cup {OllamaMessage("tool", None, "t", None)}

\* makeToolCallId(): randomBytes(5) as hex, cut to 9 digits. The generator is
\* taken never to repeat within one call, so an id is the ordinal of its mint.
MakeToolCallId(count) == count + 1

\* A queue that drops nothing at an assistant message with tool calls.
ClearToolCallIdsKeepsAll(queue) == queue

\* A queue that keeps its newest id at an assistant message with tool calls.
ClearToolCallIdsKeepsNewest(queue) ==
  IF queue = <<>> THEN <<>> ELSE <<queue[Len(queue)]>>

\* toolCallIds.length = 0.
ClearToolCallIds(queue) == <<>>

\* A tool message that takes the newest id of the queue.
TakeToolCallIdNewest(queue, count) ==
  IF queue # <<>>
  THEN [id |-> queue[Len(queue)], queue |-> SubSeq(queue, 1, Len(queue) - 1), minted |-> count]
  ELSE [id |-> MakeToolCallId(count), queue |-> queue, minted |-> count + 1]

\* toolCallIds.shift() || makeToolCallId().
TakeToolCallId(queue, count) ==
  IF queue # <<>>
  THEN [id |-> Head(queue), queue |-> Tail(queue), minted |-> count]
  ELSE [id |-> MakeToolCallId(count), queue |-> queue, minted |-> count + 1]

\* The content of a translated message: a string, or a list of parts.
TextContent(text) == [text |-> Some(text), parts |-> None]
PartsContent(parts) == [text |-> None, parts |-> Some(parts)]

TextPart(text) == [type |-> "text", text |-> Some(text), image_url |-> None]
ImagePart(img) ==
  [type |-> "image_url", text |-> None,
   image_url |-> Some([url |-> <<"data:image/jpeg;base64,", img>>])]

\* A translated message (ChatCompletionMessageParam); a field the code does not
\* set is None.
OpenAIMessage(role, content, tool_calls, tool_call_id) ==
  [role |-> role, content |-> content, tool_calls |-> tool_calls,
   tool_call_id |-> tool_call_id]

\* The callback of messages.map in convertOllamaMessagesToOpenAI, applied to
\* one message with the queue and the mint count as they stand: the translated
\* message, and the queue and the count as it leaves them.
ConvertMessage(msg, queue, count) ==
  IF msg.role = "assistant" /\ msg.tool_calls # None
  THEN LET calls == msg.tool_calls[1]
           ids == [j \in 1..Len(calls) |-> MakeToolCallId(count + j - 1)]
       IN [message |->
             OpenAIMessage("assistant", TextContent(msg.content),
                           Some([j \in 1..Len(calls) |->
                                   [id |-> ids[j],
                                    type |-> "function",
                                    function |->
                                      [name |-> calls[j].function.name,
                                       arguments |->
                                         JSONStringify(calls[j].function.arguments)]]]),
                           None),
           queue |-> ClearToolCallIds(queue) \o ids,
           minted |-> count + Len(calls)]
  ELSE IF msg.role = "tool"
  THEN LET taken == TakeToolCallId(queue, count)
       IN [message |-> OpenAIMessage("tool", TextContent(msg.content), None, Some(taken.id)),
           queue |-> taken.queue,
           minted |-> taken.minted]
  ELSE IF msg.images # None /\ Len(msg.images[1]) > 0 /\ msg.role = "user"
  THEN [message |->
          OpenAIMessage("user",
                        PartsContent(<<TextPart(msg.content)>>
                                     \o [i \in 1..Len(msg.images[1]) |->
                                           ImagePart(msg.images[1][i])]),
                        None, None),
        queue |-> queue,
        minted |-> count]
  ELSE [message |-> OpenAIMessage(msg.role, TextContent(msg.content), None, None),
        queue |-> queue,
        minted |-> count]

\* A translation that leaves the system messages out of its result.
TranslateMessageSkipsSystem(msg) ==
  /\ Len(messages) < MaxMessages
  /\ LET converted == ConvertMessage(msg, toolCallIds, minted)
     IN /\ messages' = Append(messages, msg)
        /\ openaiMessages' = IF msg.role = "system" THEN openaiMessages
                             ELSE Append(openaiMessages, converted.message)
        /\ toolCallIds' = converted.queue
        /\ minted' = converted.minted
  /\ UNCHANGED <<pc, outcome, requestedModel, callVars, toolVars, script, cleanupVars,
                 loopVars, connVars, resVars>>

\* messages.map visits the next message of the list.
TranslateMessage(msg) ==
  /\ Len(messages) < MaxMessages
  /\ LET converted == ConvertMessage(msg, toolCallIds, minted)
     IN /\ messages' = Append(messages, msg)
        /\ openaiMessages' = Append(openaiMessages, converted.message)
        /\ toolCallIds' = converted.queue
        /\ minted' = converted.minted
  /\ UNCHANGED <<pc, outcome, requestedModel, callVars, toolVars, script, cleanupVars,
                 loopVars, connVars, resVars>>

NextMessages == \E msg \in OllamaMessages : TranslateMessage(msg)

\* One call of convertOllamaMessagesToOpenAI, message by message.
SpecMessages == Init /\ [][NextMessages]_vars

\* --------------------------------------------------- tool declarations

\* The longest list of tool declarations a request body carries.
MaxDeclarations == 3

\* A parameter schema, by the members it has: {}, {type}, and {type,
\* properties, required}.
Schema(type, properties, required) ==
  [type |-> type, properties |-> properties, required |-> required]
EmptySchema == Schema(None, None, None)
TypeOnlySchema == Schema(Some("object"), None, None)
FullSchema == Schema(Some("object"), Some(<<"q">>), Some(<<"q">>))

\* Object.keys(value).
SchemaKeys(value) ==
  (IF value.type = None THEN {} ELSE {"type"})
  \cup (IF value.properties = None THEN {} ELSE {"properties"})
  \cup (IF value.required = None THEN {} ELSE {"required"})

\* The transform of parameters in RaycastRequestTool: a schema without members
\* becomes the minimal object schema, any other schema is left as it is.
TransformParameters(value) ==
  IF Cardinality(SchemaKeys(value)) = 0
  THEN Schema(Some("object"), Some(<<>>), Some(<<>>))
  ELSE value

\* The two shapes of RaycastRequestTool.
RemoteTool(name) == [type |-> "remote_tool", name |-> Some(name), function |-> None]
LocalTool(name, description, parameters) ==
  [type |-> "local_tool", name |-> None,
   function |-> Some([name |-> name, description |-> description,
                      parameters |-> parameters])]

\* The declarations a request body is made of.
RaycastTools ==
  {RemoteTool("web"),
   LocalTool("f", "d", EmptySchema),
   LocalTool("g", "d", FullSchema),
   LocalTool("h", "d", TypeOnlySchema)}

ToolLists == UNION {[1..n -> RaycastTools] : n \in 0..MaxDeclarations}

\* RaycastRequestTool.parse of one declaration.
ParseTool(tool) ==
  IF tool.type = "local_tool"
  THEN LocalTool(tool.function[1].name, tool.function[1].description,
                 TransformParameters(tool.function[1].parameters))
  ELSE tool

\* A conversion that returns the empty list when no local declaration is left.
ConvertRaycastToolsToOpenAIKeepsEmpty(raycastTools) ==
  LET filteredTools ==
        IF raycastTools = None THEN None
        ELSE Some(SelectSeq(raycastTools[1], LAMBDA tool : tool.type = "local_tool"))
  IN IF filteredTools = None THEN None
     ELSE Some([i \in 1..Len(filteredTools[1]) |->
                  [type |-> "function", function |-> filteredTools[1][i].function[1]]])

\* convertRaycastToolsToOpenAI(raycastTools): undefined when the list is absent
\* or holds no local declaration, else one function tool per local declaration.
ConvertRaycastToolsToOpenAI(raycastTools) ==
  LET filteredTools ==
        IF raycastTools = None THEN None
        ELSE Some(SelectSeq(raycastTools[1], LAMBDA tool : tool.type = "local_tool"))
  IN IF filteredTools = None \/ Len(filteredTools[1]) = 0 THEN None
     ELSE Some([i \in 1..Len(filteredTools[1]) |->
                  [type |-> "function", function |-> filteredTools[1][i].function[1]]])

\* ...(openaiTools && { tools: openaiTools }): the tools member of chatConfig.
SpreadTools(converted) ==
  IF converted = None THEN [present |-> FALSE, value |-> <<>>]
  ELSE [present |-> TRUE, value |-> converted[1]]

\* A request has arrived whose body carries some list of tool declarations.
InitDeclarations ==
  /\ HandlerInit
  /\ MessagesInit
  /\ bodyPc = "raw"
  /\ rawTools \in ToolLists
  /\ tools = <<>>
  /\ openaiTools = None
  /\ chatConfigTools = [present |-> FALSE, value |-> <<>>]

\* OllamaChatRequest.parse(req.body), for the tools of the body.
ParseBody ==
  /\ bodyPc = "raw"
  /\ bodyPc' = "parsed"
  /\ tools' = [i \in 1..Len(rawTools) |-> ParseTool(rawTools[i])]
  /\ UNCHANGED <<rawTools, openaiTools, chatConfigTools>>
  /\ UNCHANGED <<pc, outcome, requestedModel, callVars, messageVars, script, cleanupVars,
                 loopVars, connVars, resVars>>

\* The declarations are converted and chatConfig is built.
BuildChatConfig ==
  /\ bodyPc = "parsed"
  /\ bodyPc' = "built"
  /\ openaiTools' = ConvertRaycastToolsToOpenAI(Some(tools))
  /\ chatConfigTools' = SpreadTools(ConvertRaycastToolsToOpenAI(Some(tools)))
  /\ UNCHANGED <<rawTools, tools>>
  /\ UNCHANGED <<pc, outcome, requestedModel, callVars, messageVars, script, cleanupVars,
                 loopVars, connVars, resVars>>

NextDeclarations == ParseBody \/ BuildChatConfig

\* The tool declarations of one request, from the body to chatConfig.
SpecDeclarations == InitDeclarations /\ [][NextDeclarations]_vars

\* ------------------------------------------------------ reading the writes

IsFrame(w) == w.frame # None
IsTerminal(w) == IsFrame(w) /\ w.frame[1].done
IsPing(w) == w.body = "newline"
ContentOf(w) == w.frame[1].message.content
IsOpening(w) == IsFrame(w) /\ ~w.frame[1].done /\ ContentOf(w) = "<think>"
IsClosing(w) == IsFrame(w) /\ ~w.frame[1].done /\ ContentOf(w) = "</think>"

\* The positions of the writes of request r that satisfy P.
Positions(r, P(_)) == {i \in 1..Len(writes[r]) : P(writes[r][i])}
NumTerminal(r) == Cardinality(Positions(r, IsTerminal))
NumOpening(r) == Cardinality(Positions(r, IsOpening))
NumClosing(r) == Cardinality(Positions(r, IsClosing))

\* --------------------------------------------------------------- C1

\* C1 as stated, for the requests whose response was begun: once the handler is
\* over it has written exactly one terminal frame (done=true), as its last write.
C1_ExactlyOneTerminalFramePerRequest ==
  \A r \in Reqs :
    (pc[r] = "done" /\ headersSent[r]) =>
      /\ NumTerminal(r) = 1
      /\ IsTerminal(writes[r][Len(writes[r])])

\* C1, amended: at most one terminal frame is ever written, nothing (no content
\* frame, no delimiter frame, no keep-alive) is written after it, and a finished
\* handler has written it exactly when the upstream iteration ended without an
\* error; a request that fails (unknown model, upstream call that does not open,
\* upstream error in mid-stream) has written none.
C1_TerminalFrameAtMostOnceAndLast ==
  \A r \in Reqs :
    /\ NumTerminal(r) <= 1
    /\ \A i \in Positions(r, IsTerminal) : i = Len(writes[r])
    /\ pc[r] = "done" => (NumTerminal(r) = 1 <=> outcome[r] = "ok")

\* A stream that ended normally after a content frame and a keep-alive.
C1_Witness ==
  /\ pc[1] = "done" /\ outcome[1] = "ok"
  /\ Len(writes[1]) >= 3
  /\ Positions(1, IsPing) # {}
  /\ IsTerminal(writes[1][Len(writes[1])])

\* --------------------------------------------------------------- C2

\* C2 as stated: after a disconnect in Streaming the token has been aborted once,
\* the timer stopped once, and nothing more is written to the response, a
\* terminal frame in particular.
C2_NoWriteAfterDisconnectWhileStreaming ==
  \A r \in Reqs :
    closedAt[r] = "streaming" =>
      /\ abortCalls[r] = 1
      /\ timerStops[r] = 1
      /\ Len(writes[r]) = writesAtClose[r]
      /\ NumTerminal(r) = 0

\* --------------------------------------------------------------- C3

\* C3 as stated: while the handler waits for the upstream stream, a client that
\* went away after the upstream call was issued has had the token aborted.
C3_DisconnectAbortsToken ==
  \A r \in Reqs :
    (closedAt[r] \in {"opening", "streaming"} /\ pc[r] = "streaming") => aborted[r]

\* --------------------------------------------------------------- C4

\* C4 as stated: a pipeline that issued the upstream call and is over has run
\* the cleanup exactly once.
C4_CleanupRunsOncePerRequest ==
  \A r \in Reqs :
    (pc[r] = "done" /\ outcome[r] # "http400") => cleanupCalls[r] = 1

\* C4, amended: on every exit path of a pipeline that issued the upstream call
\* the cleanup routine has run, once per trigger (the finally block, and the
\* close callback when the connection closes after the commit), so once or
\* twice; its effects happen exactly once per request: abort() is called exactly
\* once, and the timer, if it was started, is stopped exactly once and is not
\* running afterwards.
C4_CleanupEffectsOncePerRequest ==
  \A r \in Reqs :
    /\ cleanupCalls[r] <= 2 /\ abortCalls[r] <= 1 /\ timerStops[r] <= 1
    /\ (pc[r] = "done" /\ outcome[r] # "http400") =>
         /\ cleanupCalls[r] >= 1
         /\ aborted[r] /\ abortCalls[r] = 1
         /\ pingInterval[r] # "running"
         /\ timerStops[r] = (IF headersSent[r] THEN 1 ELSE 0)
    /\ closedAt[r] = "streaming" =>
         aborted[r] /\ abortCalls[r] = 1 /\ pingInterval[r] = "cleared" /\ timerStops[r] = 1

\* Two triggers of one request: the disconnect callback, then the finally block.
C4_Witness ==
  /\ pc[1] = "done" /\ outcome[1] = "streamerr"
  /\ closedAt[1] = "streaming"
  /\ cleanupCalls[1] = 2

\* --------------------------------------------------------------- C5

\* C5: once cleanup has run, a further invocation (and any other step) leaves
\* the token and the timer as the first invocation left them, and abort() is
\* called at most once per request.
C5_CleanupIdempotent ==
  [][\A r \in Reqs :
       /\ abortCalls'[r] <= 1
       /\ cleanupCalls[r] >= 1 =>
            /\ aborted'[r] = aborted[r]
            /\ abortCalls'[r] = abortCalls[r]
            /\ pingInterval'[r] = pingInterval[r]
            /\ timerStops'[r] = timerStops[r]]_vars

\* A second invocation: the finally block after a normal end, then the close
\* callback.
C5_Witness ==
  /\ outcome[1] = "ok" /\ closedAt[1] = "done"
  /\ cleanupCalls[1] = 2

\* --------------------------------------------------------------- C6

\* C6: the frames of an earlier delta are written before the frames of a later
\* one, and the terminal frame after the frames of every delta.
C6_FramesInDeltaOrder ==
  \A r \in Reqs :
    \A i, j \in 1..Len(writes[r]) :
      LET a == writes[r][i]
          b == writes[r][j]
      IN /\ (a.cause > 0 /\ b.cause > 0 /\ a.cause < b.cause) => i < j
         /\ (a.cause > 0 /\ IsTerminal(b)) => i < j

\* Frames of two different deltas, a keep-alive between them, then the terminal
\* frame.
C6_Witness ==
  /\ \E i, j, k \in 1..Len(writes[1]) :
       /\ i < j /\ j < k
       /\ writes[1][i].cause = 1
       /\ IsPing(writes[1][j])
       /\ writes[1][k].cause = 3
  /\ IsTerminal(writes[1][Len(writes[1])])

\* --------------------------------------------------------------- C7

\* The delimiter frames among the first n writes: opening ones minus closing
\* ones.
Depth(r, n) ==
  Cardinality({i \in Positions(r, IsOpening) : i <= n})
  - Cardinality({i \in Positions(r, IsClosing) : i <= n})

\* C7: at every point of the stream the opening delimiter frames written are as
\* many as the Idle -> Reasoning transitions, and as many as the closing ones
\* plus one in Reasoning (plus none in Idle); opening and closing delimiters
\* alternate, starting with an opening one.
C7_DelimitersBalanced ==
  \A r \in Reqs :
    /\ NumOpening(r) = nOpened[r]
    /\ NumOpening(r) = NumClosing(r) + (IF reasoning[r] THEN 1 ELSE 0)
    /\ \A n \in 0..Len(writes[r]) : Depth(r, n) \in {0, 1}

\* Opened, closed and opened again.
C7_Witness ==
  /\ NumOpening(1) = 2 /\ NumClosing(1) = 1
  /\ reasoning[1]

\* --------------------------------------------------------------- C8

\* The transition table of the sequencer as the specification gives it: the
\* contents to write and the next state, for a state and the two texts.
TableRow(reas, reasoning_content, content) ==
  IF MinLength1(reasoning_content)
  THEN IF reas
       THEN [written |-> <<reasoning_content[1]>>, next |-> TRUE]
       ELSE [written |-> <<"<think>", reasoning_content[1]>>, next |-> TRUE]
  ELSE IF MinLength1(content)
       THEN IF reas
            THEN [written |-> <<"</think>", content[1]>>, next |-> FALSE]
            ELSE [written |-> <<content[1]>>, next |-> FALSE]
       ELSE [written |-> <<>>, next |-> reas]

\* The contents of the frames written by the step.
NewContents(r) ==
  [i \in 1..(Len(writes'[r]) - Len(writes[r])) |-> ContentOf(writes'[r][Len(writes[r]) + i])]

\* C8: every loop iteration that handles a delta writes the frames of the
\* table's row for the state and the delta's texts, in the row's order, and
\* moves to the row's next state.
C8_SequencerFollowsTable ==
  [][\A r \in Reqs :
       (nDeltas'[r] = nDeltas[r] + 1 /\ lastChunk'[r].delta # None) =>
         LET delta == lastChunk'[r].delta[1]
             row == TableRow(reasoning[r], delta.reasoning_content, delta.content)
         IN /\ SubSeq(writes'[r], 1, Len(writes[r])) = writes[r]
            /\ \A i \in (Len(writes[r]) + 1)..Len(writes'[r]) :
                 IsFrame(writes'[r][i]) /\ ~writes'[r][i].frame[1].done
            /\ NewContents(r) = row.written
            /\ reasoning'[r] = row.next]_vars

\* A delta with both texts has been handled in Reasoning.
C8_Witness ==
  /\ nDeltas[1] = 2
  /\ lastChunk[1].delta = Some(TextDelta(Some("r"), Some("c")))
  /\ NumOpening(1) = 1
  /\ reasoning[1]

\* --------------------------------------------------------------- C9

\* The argument text a fragment carries (none counts as the empty text).
FragmentText(f) ==
  IF f.function = None THEN <<>>
  ELSE IF f.function[1].arguments = None THEN <<>>
  ELSE f.function[1].arguments[1]

\* The function name a fragment carries (none counts as the empty name).
NameCarried(f) ==
  IF f.function = None THEN ""
  ELSE IF f.function[1].name = None THEN ""
  ELSE f.function[1].name[1]

\* The fragments received for index k, in arrival order.
FragmentsOf(r, k) == SelectSeq(fragLog[r], LAMBDA f : f.index = k)

RECURSIVE ConcatTexts(_)
ConcatTexts(frags) ==
  IF frags = <<>> THEN <<>> ELSE FragmentText(Head(frags)) \o ConcatTexts(Tail(frags))

\* The tool calls of the terminal frame of a stream that ended normally.
TerminalToolCalls(r) ==
  LET last == writes[r][Len(writes[r])].frame[1]
  IN IF last.message.tool_calls = None THEN <<>> ELSE last.message.tool_calls[1]

\* C9: when the fragments of an index start with a non-empty function name and
\* their texts, concatenated in arrival order, are valid JSON, the terminal frame
\* holds exactly one tool call for that index, with that name and with the parse
\* of the concatenation as its arguments.
C9_ToolCallArgumentsAreConcatenation ==
  \A r \in Reqs :
    outcome[r] = "ok" =>
      \A k \in ToolIndexes :
        LET frags == FragmentsOf(r, k)
            text == ConcatTexts(frags)
            keys == SurvivingKeys(finalToolCalls[r])
            calls == TerminalToolCalls(r)
            at == {p \in 1..Len(keys) : keys[p] = k}
        IN (frags # <<>> /\ NameCarried(frags[1]) # "" /\ ParseJSON(text).ok) =>
             /\ Len(calls) = Len(keys)
             /\ Cardinality(at) = 1
             /\ \A p \in at :
                  /\ calls[p].function.name = NameCarried(frags[1])
                  /\ calls[p].function.arguments = ParseJSON(text).value

\* Three fragments of index 0 in three deltas give the call f({}).
C9_Witness ==
  /\ outcome[1] = "ok"
  /\ Len(FragmentsOf(1, 0)) = 3
  /\ ConcatTexts(FragmentsOf(1, 0)) = <<"{", "}">>
  /\ TerminalToolCalls(1) =
       <<[function |-> [name |-> "f", arguments |-> [type |-> "object", n |-> 0]]]>>

\* --------------------------------------------------------------- C10

\* The fragments of index k in the chunk the step handled.
NewFragmentsOf(r, k) ==
  SelectSeq(SubSeq(fragLog'[r], Len(fragLog[r]) + 1, Len(fragLog'[r])),
            LAMBDA f : f.index = k)

\* C10: an entry of the accumulator, once created, keeps its id, type and
\* function name whatever later fragments of its index carry; they only extend
\* its argument text, by their texts in arrival order.
C10_IdentityFixedAtCreation ==
  [][\A r \in Reqs : \A k \in ToolIndexes :
       finalToolCalls[r][k] # None =>
         /\ finalToolCalls'[r][k] # None
         /\ LET old == finalToolCalls[r][k][1]
                new == finalToolCalls'[r][k][1]
            IN /\ new.index = old.index
               /\ new.id = old.id
               /\ new.type = old.type
               /\ new.function.name = old.function.name
               /\ new.function.arguments =
                    old.function.arguments \o ConcatTexts(NewFragmentsOf(r, k))]_vars

\* An entry created without id, type and name has then seen a fragment that
\* carries all three.
C10_Witness ==
  /\ nDeltas[1] >= 2
  /\ finalToolCalls[1][0] # None
  /\ finalToolCalls[1][0][1].id = None
  /\ finalToolCalls[1][0][1].function.name = ""
  /\ finalToolCalls[1][0][1].function.arguments = <<"{", "}">>
  /\ Len(FragmentsOf(1, 0)) >= 2
  /\ FragmentsOf(1, 0)[2].id = Some("a")

\* --------------------------------------------------------------- C11

\* The function name the accumulator holds for index k: the name carried by the
\* first fragment of that index.
CreatedName(r, k) == NameCarried(FragmentsOf(r, k)[1])

\* C11: no tool call of a terminal frame has an empty function name, and an
\* index whose entry was created without a function name contributes no tool
\* call to the terminal frame, whatever later fragments of that index carry.
C11_NoUnnamedToolCallInTerminalFrame ==
  \A r \in Reqs :
    /\ \A i \in 1..Len(writes[r]) :
         (IsFrame(writes[r][i]) /\ writes[r][i].frame[1].message.tool_calls # None) =>
           \A p \in 1..Len(writes[r][i].frame[1].message.tool_calls[1]) :
             writes[r][i].frame[1].message.tool_calls[1][p].function.name # ""
    /\ outcome[r] = "ok" =>
         /\ Len(TerminalToolCalls(r)) = Len(SurvivingKeys(finalToolCalls[r]))
         /\ \A k \in ToolIndexes :
              (FragmentsOf(r, k) # <<>> /\ CreatedName(r, k) = "") =>
                \A p \in 1..Len(SurvivingKeys(finalToolCalls[r])) :
                  SurvivingKeys(finalToolCalls[r])[p] # k

\* Index 0 was created without a name, holds the text "{}" and was later sent
\* a name; index 1 was created with a name. Only the call of index 1 is in the
\* terminal frame.
C11_Witness ==
  /\ outcome[1] = "ok"
  /\ Len(FragmentsOf(1, 0)) >= 2
  /\ CreatedName(1, 0) = ""
  /\ NameCarried(FragmentsOf(1, 0)[2]) = "f"
  /\ ParseJSON(ConcatTexts(FragmentsOf(1, 0))).ok
  /\ FragmentsOf(1, 1) # <<>>
  /\ SurvivingKeys(finalToolCalls[1]) = <<1>>
  /\ Len(TerminalToolCalls(1)) = 1

\* --------------------------------------------------------------- C12

\* The argument text index k has accumulated: the texts of its fragments in
\* arrival order.
AccumulatedText(r, k) == ConcatTexts(FragmentsOf(r, k))

\* Index k has a tool call in the terminal frame.
Survives(r, k) ==
  \E p \in 1..Len(SurvivingKeys(finalToolCalls[r])) : SurvivingKeys(finalToolCalls[r])[p] = k

\* C12 as claimed: an index whose accumulated argument text is not valid JSON,
\* the empty text included, has no tool call in the terminal frame.
C12_NoUnparsedToolCallInTerminalFrame ==
  \A r \in Reqs :
    outcome[r] = "ok" =>
      \A k \in ToolIndexes :
        (FragmentsOf(r, k) # <<>> /\ ~ParseJSON(AccumulatedText(r, k)).ok) => ~Survives(r, k)

\* C12 as the code has it: an index whose accumulated argument text is not
\* empty and is not valid JSON has no tool call in the terminal frame; an index
\* created with a function name whose accumulated text is empty has one, and its
\* arguments are the empty object.
C12_NoUnparsedNonEmptyToolCallInTerminalFrame ==
  \A r \in Reqs :
    outcome[r] = "ok" =>
      /\ Len(TerminalToolCalls(r)) = Len(SurvivingKeys(finalToolCalls[r]))
      /\ \A k \in ToolIndexes :
           /\ (/\ FragmentsOf(r, k) # <<>>
               /\ AccumulatedText(r, k) # <<>>
               /\ ~ParseJSON(AccumulatedText(r, k)).ok) => ~Survives(r, k)
           /\ (/\ FragmentsOf(r, k) # <<>>
               /\ AccumulatedText(r, k) = <<>>
               /\ CreatedName(r, k) # "") =>
                 /\ Survives(r, k)
                 /\ \A p \in 1..Len(TerminalToolCalls(r)) :
                      SurvivingKeys(finalToolCalls[r])[p] = k =>
                        TerminalToolCalls(r)[p].function.arguments =
                          [type |-> "object", n |-> 0]

\* Index 0 is named and has accumulated "{1", which does not parse; index 1 is
\* named and has accumulated nothing. The terminal frame holds the call of
\* index 1 alone, with the empty object as its arguments.
C12_Witness ==
  /\ outcome[1] = "ok"
  /\ FragmentsOf(1, 0) # <<>>
  /\ CreatedName(1, 0) = "f"
  /\ AccumulatedText(1, 0) = <<"{", "1">>
  /\ FragmentsOf(1, 1) # <<>>
  /\ CreatedName(1, 1) = "g"
  /\ AccumulatedText(1, 1) = <<>>
  /\ TerminalToolCalls(1) =
       <<[function |-> [name |-> "g", arguments |-> [type |-> "object", n |-> 0]]]>>

\* --------------------------------------------------------------- C13

\* What the claim makes of the last terminal reason the upstream supplied.
MappedReason(supplied) ==
  IF supplied = None THEN None
  ELSE IF supplied[1] \in {"stop", "tool_calls"} THEN supplied
  ELSE Some("stop")

\* C13: the reason of a terminal frame is the mapping of the last terminal
\* reason a chunk of the stream carried: "stop" and "tool_calls" unchanged, any
\* other value "stop"; it is unset exactly when no chunk carried one.
C13_TerminalReasonIsMappedLastReason ==
  \A r \in Reqs :
    /\ finish_reason[r] = MappedReason(suppliedReason[r])
    /\ \A i \in 1..Len(writes[r]) :
         IsTerminal(writes[r][i]) =>
           /\ writes[r][i].frame[1].done_reason = MappedReason(suppliedReason[r])
           /\ (writes[r][i].frame[1].done_reason = None) <=> (suppliedReason[r] = None)

\* A stream in which a chunk carried "length" and a later chunk carried no
\* reason ended with the reason "stop".
C13_Witness ==
  /\ outcome[1] = "ok"
  /\ nDeltas[1] = 3
  /\ suppliedReason[1] = Some("length")
  /\ lastChunk[1].finish_reason = None
  /\ writes[1][Len(writes[1])].frame[1].done_reason = Some("stop")

\* --------------------------------------------------------------- C14

\* The names of the configured and discovered models of the request.
KnownNames(r) == {allModels[r][i] : i \in 1..Len(allModels[r])}

\* The request has been looked up and its model name matched no model.
UnknownModel(r) ==
  /\ pc[r] \notin {"absent", "idle", "discover"}
  /\ requestedModel[r] \notin KnownNames(r)

\* C14: a request whose model name matches no configured or discovered model
\* has failed with the HttpError 400 whose message names the model, and has
\* issued no upstream call, created no token, started no timer, registered no
\* close handler, and written no header and no body byte.
C14_UnknownModelFailsBeforeAnyStream ==
  \A r \in Reqs :
    /\ UnknownModel(r) =>
         /\ pc[r] = "done"
         /\ outcome[r] = "http400"
         /\ httpError[r] = Some([status |-> 400,
                                 message |-> <<"Model ", requestedModel[r], " not found">>])
         /\ upstreamCalls[r] = 0
         /\ abortController[r] = "none"
         /\ ~aborted[r] /\ abortCalls[r] = 0 /\ cleanupCalls[r] = 0
         /\ pingInterval[r] = "unset" /\ nPings[r] = 0
         /\ ~closeHandler[r]
         /\ ~headersSent[r] /\ ~resEnded[r]
         /\ writes[r] = <<>>
         /\ nDeltas[r] = 0
    /\ outcome[r] = "http400" => UnknownModel(r)

\* A request for a model that only the discovery could have supplied, made when
\* the discovery found nothing, has failed, and the client has gone since.
C14_Witness ==
  /\ requestedModel[1] = "llama [Local]"
  /\ allModels[1] = ConfiguredModels
  /\ outcome[1] = "http400"
  /\ conn[1] = "closed"

\* --------------------------------------------------------------- C15

\* C15: before the headers are committed nothing is written and the keep-alive
\* timer is not started; the headers are committed only once the upstream call
\* has been issued and has opened.
C15_HeadersAfterOpenAndBeforeBody ==
  \A r \in Reqs :
    /\ ~headersSent[r] =>
         /\ writes[r] = <<>>
         /\ nPings[r] = 0
         /\ pingInterval[r] = "unset"
         /\ ~resEnded[r]
    /\ headersSent[r] =>
         /\ upstreamCalls[r] = 1
         /\ pc[r] \in {"streaming", "done"}
         /\ outcome[r] \notin {"http400", "openfail"}

\* After the commit a keep-alive byte was written, then a content frame, then
\* the terminal frame.
C15_Witness ==
  /\ headersSent[1]
  /\ outcome[1] = "ok"
  /\ Len(writes[1]) = 3
  /\ IsPing(writes[1][1])
  /\ IsFrame(writes[1][2]) /\ ~IsTerminal(writes[1][2])
  /\ IsTerminal(writes[1][3])

\* --------------------------------------------------------------- C16

\* C16: the upstream call is issued at most once per request. If it fails to
\* open, the handler has thrown with no header and no body byte written. If
\* the iteration fails after the commit, the handler has thrown with no
\* terminal frame written and the response not ended by it.
C16_UpstreamErrorEndsPipeline ==
  \A r \in Reqs :
    /\ upstreamCalls[r] <= 1
    /\ outcome[r] = "openfail" =>
         /\ pc[r] = "done"
         /\ upstreamCalls[r] = 1
         /\ ~headersSent[r]
         /\ writes[r] = <<>>
         /\ ~resEnded[r]
         /\ httpError[r] = None
    /\ outcome[r] = "streamerr" =>
         /\ pc[r] = "done"
         /\ upstreamCalls[r] = 1
         /\ headersSent[r]
         /\ NumTerminal(r) = 0
         /\ ~resEnded[r]
         /\ pingInterval[r] = "cleared"

\* The iteration failed after two chunks had each written a content frame.
C16_Witness ==
  /\ outcome[1] = "streamerr"
  /\ nDeltas[1] = 2
  /\ Len(writes[1]) = 2
  /\ \A i \in 1..2 : IsFrame(writes[1][i]) /\ ~IsTerminal(writes[1][i])

\* --------------------------------------------------------------- C17

\* Message a of the list is an assistant message carrying a tool-call list.
IsToolCallTurn(a) == messages[a].role = "assistant" /\ messages[a].tool_calls # None

\* The correlation ids minted for the tool calls of message a, in order.
MintedFor(a) ==
  [j \in 1..Len(openaiMessages[a].tool_calls[1]) |-> openaiMessages[a].tool_calls[1][j].id]

\* Messages a+1 .. a+j are all tool messages.
ToolRunAfter(a, j) ==
  /\ a + j <= Len(messages)
  /\ \A i \in 1..j : messages[a + i].role = "tool"

\* C17: when an assistant message with n tool calls is followed immediately by
\* tool messages, the j-th of them, for j <= n, carries the correlation id
\* minted for the j-th tool call of that assistant message.
C17_ToolMessagesTakeIdsInOrder ==
  \A a \in 1..Len(messages) :
    IsToolCallTurn(a) =>
      /\ Len(MintedFor(a)) = Len(messages[a].tool_calls[1])
      /\ \A j \in 1..Len(MintedFor(a)) :
           ToolRunAfter(a, j) =>
             openaiMessages[a + j].tool_call_id = Some(MintedFor(a)[j])

\* After an assistant message with one tool call, an assistant message with
\* two tool calls is followed by two tool messages: they carry the ids of its
\* first and of its second call.
C17_Witness ==
  /\ Len(messages) = 4
  /\ IsToolCallTurn(1) /\ Len(MintedFor(1)) = 1
  /\ IsToolCallTurn(2) /\ Len(MintedFor(2)) = 2
  /\ ToolRunAfter(2, 2)
  /\ MintedFor(2)[1] # MintedFor(2)[2]
  /\ openaiMessages[3].tool_call_id = Some(MintedFor(2)[1])
  /\ openaiMessages[4].tool_call_id = Some(MintedFor(2)[2])

\* --------------------------------------------------------------- C18

\* The queue the claim describes, after the first i messages: every assistant
\* message with tool calls appends its ids, every tool message removes the
\* oldest one, and nothing else touches it.
RECURSIVE OneQueueAfter(_)
OneQueueAfter(i) ==
  IF i = 0 THEN <<>>
  ELSE LET before == OneQueueAfter(i - 1)
       IN IF IsToolCallTurn(i) THEN before \o MintedFor(i)
          ELSE IF messages[i].role = "tool" /\ before # <<>> THEN Tail(before)
          ELSE before

\* The same queue when an assistant message with tool calls first empties it.
RECURSIVE TurnQueueAfter(_)
TurnQueueAfter(i) ==
  IF i = 0 THEN <<>>
  ELSE LET before == TurnQueueAfter(i - 1)
       IN IF IsToolCallTurn(i) THEN MintedFor(i)
          ELSE IF messages[i].role = "tool" /\ before # <<>> THEN Tail(before)
          ELSE before

\* Every correlation id the first i translated messages carry.
IdsUpTo(i) ==
  UNION {IF openaiMessages[a].tool_calls # None
         THEN {openaiMessages[a].tool_calls[1][j].id :
                 j \in 1..Len(openaiMessages[a].tool_calls[1])}
         ELSE IF openaiMessages[a].tool_call_id # None
         THEN {openaiMessages[a].tool_call_id[1]}
         ELSE {} : a \in 1..i}

\* C18 as claimed: a tool message receives the oldest id not yet consumed,
\* counting the ids of all preceding assistant messages, so that ids an earlier
\* assistant turn left over are served before those of a later turn.
C18_OneQueueAcrossAssistantTurns ==
  \A t \in 1..Len(messages) :
    (messages[t].role = "tool" /\ OneQueueAfter(t - 1) # <<>>) =>
      openaiMessages[t].tool_call_id = Some(Head(OneQueueAfter(t - 1)))

\* C18 as the code has it: an assistant message with tool calls empties the
\* queue before it pushes its ids, so a tool message receives the oldest id not
\* yet consumed among those of the nearest preceding assistant message with
\* tool calls, and a fresh id when none of them is left.
C18_QueueRestartsAtEachAssistantTurn ==
  /\ toolCallIds = TurnQueueAfter(Len(messages))
  /\ \A t \in 1..Len(messages) :
       messages[t].role = "tool" =>
         IF TurnQueueAfter(t - 1) # <<>>
         THEN openaiMessages[t].tool_call_id = Some(Head(TurnQueueAfter(t - 1)))
         ELSE /\ openaiMessages[t].tool_call_id # None
              /\ openaiMessages[t].tool_call_id[1] \notin IdsUpTo(t - 1)

\* An assistant message with two tool calls is answered by one tool message;
\* the next assistant message has one tool call, and the tool message after it
\* carries that call's id, not the id the first turn left over.
C18_Witness ==
  /\ Len(messages) = 4
  /\ IsToolCallTurn(1) /\ Len(MintedFor(1)) = 2
  /\ messages[2].role = "tool"
  /\ IsToolCallTurn(3) /\ Len(MintedFor(3)) = 1
  /\ messages[4].role = "tool"
  /\ openaiMessages[2].tool_call_id = Some(MintedFor(1)[1])
  /\ openaiMessages[4].tool_call_id = Some(MintedFor(3)[1])
  /\ openaiMessages[4].tool_call_id # Some(MintedFor(1)[2])
  /\ toolCallIds = <<>>

\* --------------------------------------------------------------- C19

\* What a request that runs alone has after the first n chunks of a stream:
\* the frames written for them, the sequencer mode, the accumulator and the
\* terminal reason.
RECURSIVE Alone(_, _, _)
Alone(model, chunks, n) ==
  IF n = 0
  THEN [frames |-> <<>>, reasoning |-> FALSE, toolCalls |-> EmptyToolCalls, reason |-> None]
  ELSE LET before == Alone(model, chunks, n - 1)
           chunk == chunks[n]
       IN IF chunk.delta = None THEN before
          ELSE LET delta == chunk.delta[1]
                   seqr == Sequencer(before.reasoning, delta.reasoning_content, delta.content)
               IN [frames |-> before.frames \o ContentWrites(model, seqr, n),
                   reasoning |-> seqr.reasoning,
                   toolCalls |->
                     Accumulate(before.toolCalls,
                                IF delta.tool_calls = None THEN <<>> ELSE delta.tool_calls[1],
                                1),
                   reason |-> MapFinishReason(before.reason, chunk.finish_reason)]

\* The frames of request r, keep-alive bytes left out: those written for its
\* chunks, and its terminal frames.
ChunkFrames(r) == SelectSeq(writes[r], LAMBDA w : IsFrame(w) /\ ~IsTerminal(w))
TerminalFrames(r) == SelectSeq(writes[r], LAMBDA w : IsTerminal(w))

\* Request r is where it would be had it run alone on its own stream.
AsIfAlone(r) ==
  LET alone == Alone(requestedModel[r], script[r], nDeltas[r])
  IN /\ ChunkFrames(r) = alone.frames
     /\ reasoning[r] = alone.reasoning
     /\ finalToolCalls[r] = alone.toolCalls
     /\ finish_reason[r] = alone.reason
     /\ \A i \in 1..Len(TerminalFrames(r)) :
          TerminalFrames(r)[i].frame[1] =
            MakeOllamaChunk(requestedModel[r], "", TRUE, alone.reason, Some(alone.toolCalls))

\* The step leaves the handler of request r, its response and its connection
\* as they are.
Untouched(r) ==
  /\ pc'[r] = pc[r] /\ outcome'[r] = outcome[r]
  /\ aborted'[r] = aborted[r] /\ abortCalls'[r] = abortCalls[r]
  /\ pingInterval'[r] = pingInterval[r] /\ timerStops'[r] = timerStops[r]
  /\ cleanupCalls'[r] = cleanupCalls[r]
  /\ writes'[r] = writes[r] /\ headersSent'[r] = headersSent[r]
  /\ resEnded'[r] = resEnded[r] /\ closeHandler'[r] = closeHandler[r]
  /\ reasoning'[r] = reasoning[r] /\ finalToolCalls'[r] = finalToolCalls[r]
  /\ finish_reason'[r] = finish_reason[r] /\ nDeltas'[r] = nDeltas[r]
  /\ conn'[r] = conn[r]

\* C19: with two requests in flight and their steps interleaved in every way,
\* the frames, the sequencer mode, the accumulator and the terminal reason of
\* each request are what they would be had the request run alone on its own
\* stream; and every step (a chunk, a timer tick, a disconnect, a cleanup)
\* touches one request only, so that it neither aborts the token nor stops the
\* timer of the other.
C19_ConcurrentRequestsAreIsolated ==
  /\ [](\A r \in Reqs : AsIfAlone(r))
  /\ [][\E q \in Reqs : \A r \in Reqs \ {q} : Untouched(r)]_vars

\* The first request was aborted by its client's disconnect in mid-stream;
\* the second one, whose timer has ticked, went on to its terminal frame with
\* its own frames.
C19_Witness ==
  /\ pc[1] = "streaming" /\ nDeltas[1] = 1 /\ aborted[1] /\ pingInterval[1] = "cleared"
  /\ Len(ChunkFrames(1)) >= 1
  /\ outcome[2] = "ok" /\ nDeltas[2] = 2 /\ nPings[2] = 1
  /\ abortCalls[2] = 1 /\ conn[2] = "open"
  /\ Len(ChunkFrames(2)) = 4
  /\ \A i \in 1..Len(writes[2]) :
       IsFrame(writes[2][i]) => writes[2][i].frame[1].model = "llama [Local]"

\* --------------------------------------------------------------- C20

\* The local declarations of the request body, in order.
LocalDeclarations == SelectSeq(rawTools, LAMBDA tool : tool.type = "local_tool")

\* C20: the conversion drops the remote declarations and maps the local ones,
\* in order, to one function tool each, carrying the declaration's function as
\* parsed; when no local declaration is left (an empty list, or remote ones
\* only) chatConfig has no tools member at all.
C20_LocalDeclarationsBecomeFunctionTools ==
  bodyPc = "built" =>
    IF LocalDeclarations = <<>>
    THEN /\ openaiTools = None
         /\ ~chatConfigTools.present
    ELSE /\ chatConfigTools.present
         /\ openaiTools = Some(chatConfigTools.value)
         /\ Len(chatConfigTools.value) = Len(LocalDeclarations)
         /\ \A i \in 1..Len(LocalDeclarations) :
              /\ chatConfigTools.value[i].type = "function"
              /\ chatConfigTools.value[i].function =
                   ParseTool(LocalDeclarations[i]).function[1]

\* A remote declaration between two local ones: chatConfig has the two
\* function tools, in the order of the body.
C20_Witness ==
  /\ bodyPc = "built"
  /\ rawTools = <<LocalTool("g", "d", FullSchema), RemoteTool("web"),
                  LocalTool("f", "d", EmptySchema)>>
  /\ chatConfigTools.present
  /\ Len(chatConfigTools.value) = 2
  /\ chatConfigTools.value[1].function.name = "g"
  /\ chatConfigTools.value[2].function.name = "f"

\* --------------------------------------------------------------- C21

\* Message i is handed on as it is: it is not an assistant message with a
\* tool-call list, not a tool message, and not a user message with an image.
IsPassthrough(i) ==
  /\ ~IsToolCallTurn(i)
  /\ messages[i].role # "tool"
  /\ ~(/\ messages[i].role = "user"
        /\ messages[i].images # None
        /\ Len(messages[i].images[1]) > 0)

\* C21: the translated list is as long as the list translated, its i-th
\* message has the role of the i-th message translated, and a message handed
\* on as it is keeps its text as its content and gains no other field.
C21_TranslationIsOneToOne ==
  /\ Len(openaiMessages) = Len(messages)
  /\ \A i \in 1..Len(messages) :
       /\ openaiMessages[i].role = messages[i].role
       /\ IsPassthrough(i) =>
            /\ openaiMessages[i].content = TextContent(messages[i].content)
            /\ openaiMessages[i].tool_calls = None
            /\ openaiMessages[i].tool_call_id = None

\* A system message with an image, a user message with an image, an assistant
\* message with tool calls and a plain user message: the first and the last are
\* handed on with their texts, the second has become a list of parts.
C21_Witness ==
  /\ Len(messages) = 4
  /\ messages[1].role = "system" /\ messages[1].images = Some(<<"img">>)
  /\ messages[2].role = "user" /\ messages[2].images = Some(<<"img">>)
  /\ IsToolCallTurn(3)
  /\ messages[4] = OllamaMessage("user", None, "y", None)
  /\ IsPassthrough(1) /\ IsPassthrough(4) /\ ~IsPassthrough(2)
  /\ openaiMessages[1].content = TextContent("s")
  /\ openaiMessages[2].content.parts # None
  /\ openaiMessages[4].content = TextContent("y")

\* --------------------------------------------------------------- C22

\* The position of the last write a chunk caused (0 when no chunk wrote).
LastChunkWrite(r) ==
  LET caused == {i \in 1..Len(writes[r]) : writes[r][i].cause > 0}
  IN IF caused = {} THEN 0 ELSE CHOOSE i \in caused : \A j \in caused : j <= i

\* C22: when the stream ended normally with the sequencer in Reasoning, the
\* reasoning block opened last was never closed, and the only frame after the
\* writes of the last chunk is the terminal frame, with empty content.
C22_NoClosingDelimiterAtStreamEnd ==
  \A r \in Reqs :
    (outcome[r] = "ok" /\ reasoning[r]) =>
      /\ NumClosing(r) = NumOpening(r) - 1
      /\ Depth(r, Len(writes[r])) = 1
      /\ IsTerminal(writes[r][Len(writes[r])])
      /\ ContentOf(writes[r][Len(writes[r])]) = ""
      /\ \A i \in (LastChunkWrite(r) + 1)..(Len(writes[r]) - 1) : IsPing(writes[r][i])

\* A stream of one reasoning delta ended: opening delimiter, the reasoning
\* text, a keep-alive byte, the terminal frame, and no closing delimiter.
C22_Witness ==
  /\ outcome[1] = "ok" /\ reasoning[1]
  /\ nDeltas[1] = 1
  /\ Len(writes[1]) = 4
  /\ IsOpening(writes[1][1])
  /\ IsFrame(writes[1][2]) /\ ContentOf(writes[1][2]) = "r"
  /\ IsPing(writes[1][3])
  /\ IsTerminal(writes[1][4])
  /\ NumClosing(1) = 0

\* --------------------------------------------------------------- C23

\* The minimal empty-object schema: {type: 'object', properties: {}, required: []}.
MinimalSchema == Schema(Some("object"), Some(<<>>), Some(<<>>))

\* The schema declares no property: it has no properties member, or an empty one.
DeclaresNoProperties(schema) ==
  schema.properties = None \/ schema.properties = Some(<<>>)

\* C23: in chatConfig, the function tool of a local declaration whose schema
\* declares no property (an empty schema, or one with a type but no properties)
\* carries the minimal empty-object schema, and the function tool of a
\* declaration whose schema declares properties carries that schema unchanged.
C23_SchemaWithoutPropertiesBecomesMinimal ==
  bodyPc = "built" =>
    \A i \in 1..Len(LocalDeclarations) :
      LET declared == LocalDeclarations[i].function[1].parameters
          sent == chatConfigTools.value[i].function.parameters
      IN IF DeclaresNoProperties(declared)
         THEN sent = MinimalSchema
         ELSE sent = declared

\* --------------------------------------------------------------- C24

\* The step appends a keep-alive byte to the response of request r.
WritesKeepAlive(r) ==
  /\ Len(writes'[r]) > Len(writes[r])
  /\ \E i \in (Len(writes[r]) + 1)..Len(writes'[r]) : IsPing(writes'[r][i])

\* C24: a keep-alive byte is written only by a tick of a running timer, while
\* the handler is in its loop: after the headers were committed, before any
\* cleanup has run, before the terminal frame and before the response is ended.
C24_KeepAliveOnlyWhileStreaming ==
  [][\A r \in Reqs :
       (WritesKeepAlive(r) \/ nPings'[r] # nPings[r]) =>
         /\ writes'[r] = Append(writes[r], PingWrite)
         /\ pingInterval[r] = "running"
         /\ headersSent[r]
         /\ pc[r] = "streaming"
         /\ cleanupCalls[r] = 0 /\ ~aborted[r]
         /\ NumTerminal(r) = 0
         /\ ~resEnded[r]]_vars

\* A keep-alive byte was written between two content frames; then the client
\* disconnected, the cleanup ran, and the stream ended with the terminal frame.
C24_Witness ==
  /\ outcome[1] = "ok"
  /\ closedAt[1] = "streaming"
  /\ cleanupCalls[1] = 2
  /\ nPings[1] = 1
  /\ Len(writes[1]) = 4
  /\ IsFrame(writes[1][1]) /\ IsPing(writes[1][2]) /\ IsFrame(writes[1][3])
  /\ IsTerminal(writes[1][4])
  /\ writesAtClose[1] = 3

\* --------------------------------------------------------------- C25

\* The text of a chunk the claim expects to be relayed: the reasoning text
\* when it is not empty, the regular text otherwise.
RelayedText(chunk) ==
  IF chunk.delta = None THEN ""
  ELSE IF MinLength1(chunk.delta[1].reasoning_content) THEN chunk.delta[1].reasoning_content[1]
  ELSE OrEmptyString(chunk.delta[1].content)

\* The relayed texts of the first n chunks of a stream, joined.
RECURSIVE RelayedTexts(_, _)
RelayedTexts(chunks, n) ==
  IF n = 0 THEN "" ELSE RelayedTexts(chunks, n - 1) \o RelayedText(chunks[n])

\* The contents of the first n writes that are frames, but neither delimiter
\* frames nor terminal frames, joined.
RECURSIVE WrittenTexts(_, _)
WrittenTexts(r, n) ==
  IF n = 0 THEN ""
  ELSE LET w == writes[r][n]
       IN WrittenTexts(r, n - 1)
          \o (IF IsFrame(w) /\ ~IsTerminal(w) /\ ~IsOpening(w) /\ ~IsClosing(w)
              THEN ContentOf(w) ELSE "")

\* Chunk i of the stream carries a non-empty reasoning text and a non-empty
\* regular text.
CarriesBoth(chunk) ==
  /\ chunk.delta # None
  /\ MinLength1(chunk.delta[1].reasoning_content)
  /\ MinLength1(chunk.delta[1].content)

\* C25: the contents of the frames written that are neither delimiters nor
\* terminal, joined in order, are the relayed texts of the chunks taken so far,
\* joined in arrival order; and a chunk that carries both texts has its
\* reasoning text written and its regular text not written.
C25_WrittenTextIsRelayedText ==
  \A r \in Reqs :
    /\ WrittenTexts(r, Len(writes[r])) = RelayedTexts(script[r], nDeltas[r])
    /\ \A n \in 1..nDeltas[r] :
         CarriesBoth(script[r][n]) =>
           LET caused == {i \in 1..Len(writes[r]) :
                            writes[r][i].cause = n /\ ~IsOpening(writes[r][i])}
           IN /\ Cardinality(caused) = 1
              /\ \A i \in caused :
                   ContentOf(writes[r][i]) = script[r][n].delta[1].reasoning_content[1]

\* A chunk with both texts came in Idle, another in Reasoning, and then a chunk
\* with a regular text only: "r", "r" and "c" were written.
C25_Witness ==
  /\ outcome[1] = "ok"
  /\ nDeltas[1] = 3
  /\ CarriesBoth(script[1][1]) /\ CarriesBoth(script[1][2])
  /\ script[1][3].delta = Some(TextDelta(None, Some("c")))
  /\ WrittenTexts(1, Len(writes[1])) = "rrc"
  /\ NumOpening(1) = 1 /\ NumClosing(1) = 1

\* --------------------------------------------------------------- C26

\* The chunk carries tool-call fragments and no text.
CarriesToolCallsOnly(chunk) ==
  /\ chunk.delta # None
  /\ chunk.delta[1].tool_calls # None
  /\ ~MinLength1(chunk.delta[1].reasoning_content)
  /\ ~MinLength1(chunk.delta[1].content)

\* The shape of the frames of request r.
FramesWellShaped(r) ==
  \A i \in 1..Len(writes[r]) :
    IsFrame(writes[r][i]) =>
      LET frame == writes[r][i].frame[1]
      IN /\ frame.message.role = "assistant"
         /\ IF frame.done
            THEN /\ frame.message.content = ""
                 /\ frame.done_reason \in {None, Some("stop"), Some("tool_calls")}
            ELSE /\ frame.message.content # ""
                 /\ frame.done_reason = None
                 /\ frame.message.tool_calls = None

\* C26: a frame that is not terminal has done=false, a non-empty content, no
\* reason and no tool calls; a terminal frame has empty content and the reason
\* "stop", "tool_calls" or none; and the iteration that handles a chunk with
\* tool-call fragments only writes nothing.
C26_FrameShapes ==
  /\ [](\A r \in Reqs : FramesWellShaped(r))
  /\ [][\A r \in Reqs :
          (nDeltas'[r] = nDeltas[r] + 1 /\ CarriesToolCallsOnly(lastChunk'[r])) =>
            writes'[r] = writes[r]]_vars

\* A content frame, then two chunks of tool-call fragments that wrote nothing,
\* then the terminal frame with the tool call.
C26_Witness ==
  /\ outcome[1] = "ok"
  /\ nDeltas[1] = 3
  /\ CarriesToolCallsOnly(lastChunk[1])
  /\ Len(writes[1]) = 2
  /\ ~IsTerminal(writes[1][1]) /\ ContentOf(writes[1][1]) = "c"
  /\ IsTerminal(writes[1][2])
  /\ writes[1][2].frame[1].message.tool_calls # None

\* --------------------------------------------------------------- C27

\* The nearest assistant message with a tool-call list among the first i
\* messages (0 when there is none).
NearestTurn(i) ==
  LET turns == {a \in 1..i : IsToolCallTurn(a)}
  IN IF turns = {} THEN 0 ELSE CHOOSE a \in turns : \A b \in turns : b <= a

\* The ids minted for the tool calls of message a, as a set.
IdsOf(a) == {MintedFor(a)[j] : j \in 1..Len(MintedFor(a))}

\* C27: at every point of a translation call the queue holds only ids minted
\* for the nearest assistant message with a tool-call list, and is empty right
\* after such a message with an empty list; a tool message carries an id of the
\* nearest preceding such message or an id minted for itself, and never an id
\* of an earlier assistant message.
C27_QueueHoldsOnlyNearestTurnIds ==
  LET last == NearestTurn(Len(messages))
  IN /\ \A q \in 1..Len(toolCallIds) : last > 0 /\ toolCallIds[q] \in IdsOf(last)
     /\ (last > 0 /\ last = Len(messages)) => toolCallIds = MintedFor(last)
     /\ \A t \in 1..Len(messages) :
          messages[t].role = "tool" =>
            LET near == NearestTurn(t - 1)
                id == openaiMessages[t].tool_call_id[1]
            IN /\ openaiMessages[t].tool_call_id # None
               /\ \/ near > 0 /\ id \in IdsOf(near)
                  \/ id \notin IdsUpTo(t - 1)
               /\ \A b \in 1..(t - 1) :
                    (IsToolCallTurn(b) /\ b # near) => id \notin IdsOf(b)

\* An assistant message with two tool calls, then one with an empty tool-call
\* list, then a tool message: the queue was emptied, and the tool message
\* carries an id of its own, not one of the two left over.
C27_Witness ==
  /\ Len(messages) = 3
  /\ IsToolCallTurn(1) /\ Len(MintedFor(1)) = 2
  /\ IsToolCallTurn(2) /\ Len(MintedFor(2)) = 0
  /\ messages[3].role = "tool"
  /\ openaiMessages[3].tool_call_id # None
  /\ openaiMessages[3].tool_call_id[1] \notin IdsUpTo(2)
  /\ toolCallIds = <<>>

\* --------------------------------------------------------------- C28

\* The pipeline of request r has terminated: every chunk of its stream was
\* taken, the terminal frame is its last write, the response is ended and the
\* keep-alive timer is stopped.
Terminated(r) ==
  /\ pc[r] = "done" /\ outcome[r] = "ok"
  /\ nDeltas[r] = Len(script[r])
  /\ writes[r] # <<>>
  /\ IsTerminal(writes[r][Len(writes[r])])
  /\ NumTerminal(r) = 1
  /\ resEnded[r]
  /\ pingInterval[r] = "cleared"

\* C28: once the upstream call has opened, a request whose stream is finite
\* and ends without an error and whose client stays connected eventually
\* terminates; and a timer tick leaves the loop where it is, with the same
\* chunks still to take.
C28_FiniteStreamTerminates ==
  /\ \A r \in Reqs : (pc[r] = "streaming") ~> Terminated(r)
  /\ [][\A r \in Reqs :
          nPings'[r] # nPings[r] =>
            /\ pc'[r] = pc[r] /\ nDeltas'[r] = nDeltas[r]
            /\ aborted'[r] = aborted[r] /\ pingInterval'[r] = pingInterval[r]]_vars

\* A stream of three chunks was relayed, the timer ticked between two of its
\* frames, and the pipeline has terminated.
C28_Witness ==
  /\ Terminated(1)
  /\ Len(script[1]) = 3
  /\ nPings[1] = 1
  /\ \E i \in 2..(Len(writes[1]) - 2) : IsPing(writes[1][i])

====
